---- MODULE Spec2Model ----
(***************************************************************************)
(* Verification model of the reliability core of tsenta-tha:               *)
(*   retry()          - src/unnamed/part_005, lines 72-119                 *)
(*   CircuitBreaker   - src/unnamed/part_005, lines 130-203                *)
(*   withTimeout      - src/unnamed/part_005, lines 219-230                *)
(*   retryWithTimeout - src/unnamed/part_005, lines 235-244                *)
(* The specifications share the module: SpecRetry drives one retry() call, *)
(* SpecBreaker drives one CircuitBreaker instance used by several callers  *)
(* whose calls may overlap at the await of the wrapped function,           *)
(* SpecTimeout drives independent withTimeout() calls,                     *)
(* SpecRetryTimeout drives one retryWithTimeout() call, and SpecFuzzy      *)
(* applies fuzzyScore (src/unnamed/part_002, lines 236-254) to every pair  *)
(* of short strings.  SpecTypeahead drives the candidate resolution of     *)
(* fillAsyncTypeahead (src/unnamed/part_002, lines 208-229), SpecTyping    *)
(* one humanType() call (src/src/engine/human.ts, lines 224-280), and      *)
(* SpecInput calls getInputBehavior and shouldPaste (lines 320-369).       *)
(***************************************************************************)
EXTENDS Integers, Sequences, FiniteSets, TLC

VARIABLES
    \* ---- retry(fn, options) ----
    opts,            \* the merged RetryOptions of the call
    rpc,             \* position of the retry() coroutine
    attempt,         \* loop variable `attempt`
    lastError,       \* local `lastError` (NoError = undefined)
    fnCalls,         \* number of times fn() has been invoked
    outcomes,        \* settlements of fn(), in order (the mock's results)
    onRetryLog,      \* arguments of the onRetry calls, in order
    waits,           \* attempts after which delay() was awaited, in order
    waitMs,          \* the durations of those waits, in 1/64 ms
    events,          \* fn, onRetry and delay calls and fn's settlements, in order
    settled,         \* how the promise returned by retry() settled
    \* ---- CircuitBreaker ----
    cbOptions,       \* this.options
    state,           \* this.state
    failures,        \* this.failures
    successes,       \* this.successes
    lastFailureTime, \* this.lastFailureTime
    now,             \* Date.now()
    call,            \* per caller: the promise of its execute() call
    callError,       \* per caller: what its execute() promise rejected with
    probeOk,         \* history: onSuccess runs since HalfOpen was last entered
    probeFailedAt,   \* history: time of the failed probe that reopened, or -1
    consec,          \* history: failures recorded since the last success/reset()
    admitted,        \* history, per caller: how its running call was admitted
    invoked,         \* history, per caller: invocations of fn in its call
    fnError,         \* history, per caller: what fn threw in its call
    \* ---- withTimeout(fn, timeoutMs, errorMessage), per call ----
    op,              \* the promise returned by fn()
    timer,           \* the setTimeout of the call: unset, armed or fired
    race,            \* the Promise.race promise withTimeout returns
    errorMessage,    \* the errorMessage argument
    first,           \* history: which of fn and the timer settled first
    \* ---- fuzzyScore(needle, haystack) ----
    needle,          \* first argument, a sequence of characters
    haystack,        \* second argument
    fscore,          \* the returned score, a fraction <<numerator, denominator>>
    fpc,             \* position of the call: idle, call or returned
    \* ---- fillAsyncTypeahead: resolution of the result list ----
    value,           \* the desired value
    results,         \* texts of the result items of the page, in DOM order
    count,           \* local `count`
    idx,             \* loop variable `i`
    bestIndex,       \* local `bestIndex`
    bestScore,       \* local `bestScore`, a fraction
    clicks,          \* indices of the result items clicked, in order
    tpc,             \* position: idle, count, loop, click, done or threw
    \* ---- humanType(target, selectorOrText, text) ----
    content,         \* the text to type, a sequence of characters
    wordIdx,         \* loop variable `w`
    charIdx,         \* loop variable `i`
    pressed,         \* the locator.press() calls made, in order
    charPause,       \* duration of the last pause after a character, or -1
    hpc,             \* position: idle, focus, char, backspace, correct, space, done
    \* ---- getInputBehavior(text) / shouldPaste(text) ----
    inputText,       \* the argument `text`, a sequence of characters
    behavior,        \* what the last getInputBehavior(text) returned, or none
    pasteAnswer,     \* what the last shouldPaste(text) returned, or none
    ipc,             \* idle, or ready: the functions are being called on text
    \* ---- humanMouseMove(page, toX, toY) ----
    currentPos,      \* local `currentPos`, the centre of the viewport
    targetPos,       \* local `targetPos`
    bezierPoints,    \* local `bezierPoints`: start, two control points, end
    steps,           \* local `steps`
    stepIdx,         \* loop variable `i`
    moves,           \* the points passed to page.mouse.move(), in order
    mpc,             \* position: idle, generate, loop or done
    \* ---- randomBetween(min, max) / randomInt(min, max) ----
    rndMin,          \* the argument `min`, a whole number
    rndMax,          \* the argument `max`, a whole number
    rndBetween,      \* what the last randomBetween(min, max) returned, or -1
    rndInt,          \* what the last randomInt(min, max) returned, or -1
    \* ---- humanFill(page, selector, text) ----
    fillText,        \* the argument `text`, a sequence of characters
    field,           \* the content of the input element
    metaSelectsAll,  \* whether Meta+A selects all in this browser (macOS)
    fillBehavior,    \* local `behavior`, or none
    typeCount,       \* local `typeCount`, or -1
    fillpc,          \* idle, start, paste, edit, split, clear, typing or done
    \* ---- GlobexPlatform.selectSkillChips(page, skills) ----
    skills,          \* the argument `skills`
    chips,           \* the data-skill values of the chips of the page
    selected,        \* the chips that carry the class `selected`
    wasSelected,     \* history: the chips selected before the call
    mappedSkills,    \* local `mappedSkills`
    chipsToClick,    \* local `chipsToClick`
    chipIdx,         \* how many elements the running loop has dealt with
    cpc              \* idle, map, identify, click or done

retryVars == <<opts, rpc, attempt, lastError, fnCalls, outcomes, onRetryLog,
               waits, waitMs, events, settled>>
breakerHist == <<consec, admitted, invoked, fnError>>
breakerVars == <<cbOptions, state, failures, successes, lastFailureTime, now,
                 call, callError, probeOk, probeFailedAt, breakerHist>>
timeoutVars == <<op, timer, race, errorMessage, first>>
fuzzyVars == <<needle, haystack, fscore, fpc>>
typeaheadVars == <<value, results, count, idx, bestIndex, bestScore, clicks, tpc>>
typingVars == <<content, wordIdx, charIdx, pressed, charPause, hpc>>
inputVars == <<inputText, behavior, pasteAnswer, ipc>>
mouseVars == <<currentPos, targetPos, bezierPoints, steps, stepIdx, moves, mpc>>
randomVars == <<rndMin, rndMax, rndBetween, rndInt>>
fillVars == <<fillText, field, metaSelectsAll, fillBehavior, typeCount, fillpc>>
chipVars == <<skills, chips, selected, wasSelected, mappedSkills, chipsToClick,
              chipIdx, cpc>>
pageVars == <<mouseVars, randomVars, fillVars, chipVars>>
engineVars == <<typeaheadVars, typingVars, inputVars, pageVars>>
vars == <<retryVars, breakerVars, timeoutVars, fuzzyVars, engineVars>>

(***************************************************************************)
(* Bounds of the model.                                                    *)
(***************************************************************************)
MaxAttempts == 3     \* largest opts.maxAttempts explored
MaxThreshold == 2    \* largest failureThreshold explored
MaxHalfOpen == 2     \* largest halfOpenRequests explored
MaxRecovery == 2     \* largest recoveryTimeout explored (clock ticks)
MaxTime == 4         \* the clock stops advancing here
MaxCalls == 2        \* withTimeout() calls explored side by side
MaxNeedle == 3       \* longest needle given to fuzzyScore
MaxHaystack == 4     \* longest haystack given to fuzzyScore
MaxText == 1         \* longest desired value and result text of a typeahead
MaxResults == 2      \* most result items of a typeahead
MaxContent == 3      \* longest text given to humanType
MaxFragments == 2    \* most fragments a text given to getInputBehavior is made of

(***************************************************************************)
(* Values.                                                                 *)
(***************************************************************************)
Msgs == {"fail1", "fail2"}
Values == {"ok1", "ok2"}

\* What fn may throw: an Error object, or a value that is not an Error
\* (a string).  `fresh` is FALSE for every object created by fn.
Thrown == [kind : {"Error", "string"}, msg : Msgs, fresh : {FALSE}]

NoError == [kind |-> "undefined", msg |-> "", fresh |-> FALSE]
ExhaustedError ==
    [kind |-> "Error", msg |-> "Retry exhausted with no error", fresh |-> TRUE]

\* String(error) of a thrown string is the string itself.
String(v) == v.msg

\* a wrong version of ToError: every caught value is wrapped in a new Error
ToError_AlwaysWraps(v) == [kind |-> "Error", msg |-> String(v), fresh |-> TRUE]

\* `error instanceof Error ? error : new Error(String(error))`; a
\* CircuitOpenError is an Error
ToError(v) ==
    IF v.kind \in {"Error", "CircuitOpenError"} THEN v
    ELSE [kind |-> "Error", msg |-> String(v), fresh |-> TRUE]

(***************************************************************************)
(* retry(fn, options).  The callbacks retryOn and onRetry are taken to     *)
(* return normally, as their signatures say; retryOn is a function of the  *)
(* message of the (normalised) error it is given.                          *)
(***************************************************************************)
\* Durations are counted in 1/64 ms, so that the powers of the multiplier
\* 1.5 and the jitter arithmetic stay exact.
Ms(x) == x * 64

\* RETRY_PROFILES; a multiplier is <<numerator, denominator>>
RETRY_PROFILES ==
    [aggressive |-> [maxAttempts |-> 5, baseDelay |-> Ms(100), maxDelay |-> Ms(5000),
                     multiplier |-> <<2, 1>>, jitter |-> TRUE],
     standard   |-> [maxAttempts |-> 3, baseDelay |-> Ms(200), maxDelay |-> Ms(3000),
                     multiplier |-> <<2, 1>>, jitter |-> TRUE],
     cautious   |-> [maxAttempts |-> 2, baseDelay |-> Ms(500), maxDelay |-> Ms(2000),
                     multiplier |-> <<3, 2>>, jitter |-> TRUE],
     quick      |-> [maxAttempts |-> 2, baseDelay |-> Ms(50), maxDelay |-> Ms(500),
                     multiplier |-> <<2, 1>>, jitter |-> FALSE]]

\* The backoff parameters explored: those of the four profiles, and two sets
\* of caller-given ones whose maxDelay caps the second wait.
BackoffSet ==
    {[baseDelay |-> RETRY_PROFILES[p].baseDelay, maxDelay |-> RETRY_PROFILES[p].maxDelay,
      multiplier |-> RETRY_PROFILES[p].multiplier, jitter |-> RETRY_PROFILES[p].jitter] :
        p \in {"aggressive", "standard", "cautious", "quick"}}
    \cup {[baseDelay |-> Ms(200), maxDelay |-> Ms(300), multiplier |-> <<2, 1>>,
            jitter |-> j] : j \in BOOLEAN}

\* { ...RETRY_PROFILES.standard, ...options } or a profile: maxAttempts and the
\* callbacks vary freely over the backoff parameters
RetryOptionsSet ==
    {[maxAttempts |-> m, hasRetryOn |-> h, retryOn |-> f, hasOnRetry |-> o,
      baseDelay |-> b.baseDelay, maxDelay |-> b.maxDelay,
      multiplier |-> b.multiplier, jitter |-> b.jitter] :
        m \in 0..MaxAttempts, h \in BOOLEAN, f \in [Msgs -> BOOLEAN],
        o \in BOOLEAN, b \in BackoffSet}

\* Math.random(), in quarters: 0, 1/4, 1/2, 3/4 (never 1)
RandomQuarters == {0, 1, 2, 3}

\* The Box-Muller sample z = sqrt(-2 * log(u1)) * cos(2 * PI * u2) of
\* gaussianRandom: a whole number n, or, when Math.random() returns 0 for u1
\* (log(0) is -Infinity and nothing guards it), plus or minus Infinity (inf).
ZSamples ==
    {[inf |-> 0, n |-> k] : k \in {-3, 0, 3}}
    \cup {[inf |-> i, n |-> 0] : i \in {-1, 1}}

Min(a, b) == IF a <= b THEN a ELSE b
Max(a, b) == IF a >= b THEN a ELSE b

RECURSIVE Pow(_, _)
\* Math.pow(b, n) for a whole exponent n >= 0
Pow(b, n) == IF n = 0 THEN 1 ELSE b * Pow(b, n - 1)

\* gaussianRandom(mean, stdDev) = mean + z * stdDev, in IEEE arithmetic:
\* Infinity * 0 is NaN, Infinity * positive is Infinity
gaussianRandom(mean, stdDev, z) ==
    IF z.inf = 0 THEN [nan |-> FALSE, inf |-> 0, n |-> mean + z.n * stdDev]
    ELSE IF stdDev = 0 THEN [nan |-> TRUE, inf |-> 0, n |-> 0]
    ELSE [nan |-> FALSE, inf |-> z.inf, n |-> 0]

\* the duration a setTimeout(r, ms) runs for: a duration that is not a
\* number from 1 to 2^31 - 1 (NaN and the infinities are none) is replaced by
\* 1 ms
setTimeout(ms) ==
    IF ms.nan \/ ms.inf # 0 \/ ms.n < Ms(1) THEN Ms(1) ELSE ms.n

\* the duration delay(min, max) sleeps for:
\* ms = Math.max(min, Math.min(max, gaussianRandom(mean, stdDev))), where
\* Math.min and Math.max return NaN when an argument is NaN
delay(min, max, z) ==
    LET mean == (min + max) \div 2
        stdDev == (max - min) \div 4
        g == gaussianRandom(mean, stdDev, z)
        ms == IF g.nan THEN g
              ELSE IF g.inf = 1 THEN [nan |-> FALSE, inf |-> 0, n |-> Max(min, max)]
              ELSE IF g.inf = -1 THEN [nan |-> FALSE, inf |-> 0, n |-> min]
              ELSE [nan |-> FALSE, inf |-> 0, n |-> Max(min, Min(max, g.n))]
    IN  setTimeout(ms)

\* Math.min(opts.baseDelay * Math.pow(opts.multiplier, attempt - 1), opts.maxDelay)
backoffDelay(k) ==
    Min((opts.baseDelay * Pow(opts.multiplier[1], k - 1))
            \div Pow(opts.multiplier[2], k - 1),
        opts.maxDelay)

\* if (opts.jitter) delayMs = delayMs - jitterRange + Math.random() * (jitterRange * 2)
withJitter(delayMs, r) ==
    IF opts.jitter
    THEN LET jitterRange == delayMs \div 4
         IN  delayMs - jitterRange + (r * (jitterRange * 2)) \div 4
    ELSE delayMs

Pending == [kind |-> "pending"]
Fulfilled(v) == [kind |-> "fulfilled", value |-> v]
Rejected(e) == [kind |-> "rejected", error |-> e]

\* for (attempt = 1; attempt <= opts.maxAttempts; ...) { try { ... fn()
\* -- the loop's part of the step; what the call of fn does is added by
\* retryInvoke (an fn that is not withTimeout) and retryWithTimeoutInvoke
loopInvoke ==
    /\ rpc = "loop"
    /\ attempt <= opts.maxAttempts
    /\ fnCalls' = fnCalls + 1
    /\ rpc' = "awaitFn"
    /\ events' = Append(events, "fn")
    /\ UNCHANGED <<opts, attempt, lastError, outcomes, onRetryLog, waits, waitMs,
                   settled>>
    /\ UNCHANGED <<breakerVars, fuzzyVars, engineVars>>

retryInvoke ==
    /\ loopInvoke
    /\ UNCHANGED timeoutVars

\* the loop ends: throw lastError ?? new Error('Retry exhausted with no error')
retryExhausted ==
    /\ rpc = "loop"
    /\ attempt > opts.maxAttempts
    /\ settled' = Rejected(IF lastError = NoError THEN ExhaustedError ELSE lastError)
    /\ rpc' = "done"
    /\ UNCHANGED <<opts, attempt, lastError, fnCalls, outcomes, onRetryLog, waits,
                   waitMs, events>>
    /\ UNCHANGED <<breakerVars, timeoutVars, fuzzyVars, engineVars>>

\* a wrong version of retryReturn: the `return` is missing, the loop goes on
retryReturn_NoReturn(v) ==
    /\ rpc = "awaitFn"
    /\ outcomes' = Append(outcomes, [ok |-> TRUE, val |-> v])
    /\ attempt' = attempt + 1
    /\ rpc' = "loop"
    /\ events' = Append(events, "resolved")
    /\ UNCHANGED <<opts, lastError, fnCalls, onRetryLog, waits, waitMs, settled>>
    /\ UNCHANGED <<breakerVars, timeoutVars, fuzzyVars, engineVars>>

\* return await fn();   -- fn's promise fulfilled with v
retryReturn(v) ==
    /\ rpc = "awaitFn"
    /\ outcomes' = Append(outcomes, [ok |-> TRUE, val |-> v])
    /\ settled' = Fulfilled(v)
    /\ rpc' = "done"
    /\ events' = Append(events, "resolved")
    /\ UNCHANGED <<opts, attempt, lastError, fnCalls, onRetryLog, waits, waitMs>>
    /\ UNCHANGED <<breakerVars, timeoutVars, fuzzyVars, engineVars>>

\* a wrong version of retryCatch: the last-attempt test is off by one
retryCatch_OffByOne(e) ==
    /\ rpc = "awaitFn"
    /\ outcomes' = Append(outcomes, [ok |-> FALSE, thrown |-> e])
    /\ lastError' = ToError(e)
    /\ IF (opts.hasRetryOn /\ ~opts.retryOn[ToError(e).msg])
          \/ attempt >= opts.maxAttempts - 1
       THEN \* throw lastError
            /\ settled' = Rejected(ToError(e))
            /\ rpc' = "done"
            /\ events' = Append(events, "rejected")
            /\ UNCHANGED <<onRetryLog, waits, waitMs>>
       ELSE \* delayMs = ...; opts.onRetry?.(attempt, lastError); await delay(delayMs, delayMs)
            /\ onRetryLog' = IF opts.hasOnRetry
                                THEN Append(onRetryLog,
                                        [attempt |-> attempt, error |-> ToError(e)])
                                ELSE onRetryLog
            /\ waits' = Append(waits, attempt)
            /\ \E r \in RandomQuarters, z \in ZSamples :
                  LET delayMs == withJitter(backoffDelay(attempt), r)
                  IN  waitMs' = Append(waitMs, delay(delayMs, delayMs, z))
            /\ events' = events \o (IF opts.hasOnRetry THEN <<"rejected", "onRetry">>
                                       ELSE <<"rejected">>) \o <<"delay">>
            /\ rpc' = "delay"
            /\ UNCHANGED settled
    /\ UNCHANGED <<opts, attempt, fnCalls>>
    /\ UNCHANGED <<breakerVars, timeoutVars, fuzzyVars, engineVars>>

\* a wrong version of retryCatch: the predicate is consulted after onRetry
retryCatch_LatePredicate(e) ==
    /\ rpc = "awaitFn"
    /\ outcomes' = Append(outcomes, [ok |-> FALSE, thrown |-> e])
    /\ lastError' = ToError(e)
    /\ onRetryLog' = IF opts.hasOnRetry
                                THEN Append(onRetryLog,
                                        [attempt |-> attempt, error |-> ToError(e)])
                                ELSE onRetryLog
    /\ IF (opts.hasRetryOn /\ ~opts.retryOn[ToError(e).msg])
          \/ attempt = opts.maxAttempts
       THEN /\ settled' = Rejected(ToError(e))
            /\ rpc' = "done"
            /\ events' = events \o (IF opts.hasOnRetry THEN <<"rejected", "onRetry">>
                                       ELSE <<"rejected">>)
            /\ UNCHANGED <<waits, waitMs>>
       ELSE /\ waits' = Append(waits, attempt)
            /\ \E r \in RandomQuarters, z \in ZSamples :
                  LET delayMs == withJitter(backoffDelay(attempt), r)
                  IN  waitMs' = Append(waitMs, delay(delayMs, delayMs, z))
            /\ events' = events \o (IF opts.hasOnRetry THEN <<"rejected", "onRetry">>
                                       ELSE <<"rejected">>) \o <<"delay">>
            /\ rpc' = "delay"
            /\ UNCHANGED settled
    /\ UNCHANGED <<opts, attempt, fnCalls>>
    /\ UNCHANGED <<breakerVars, timeoutVars, fuzzyVars, engineVars>>

\* a wrong version of retryCatch: onRetry is given the 0-based attempt index
retryCatch_ZeroBasedAttempt(e) ==
    /\ rpc = "awaitFn"
    /\ outcomes' = Append(outcomes, [ok |-> FALSE, thrown |-> e])
    /\ lastError' = ToError(e)
    /\ IF (opts.hasRetryOn /\ ~opts.retryOn[ToError(e).msg])
          \/ attempt = opts.maxAttempts
       THEN \* throw lastError
            /\ settled' = Rejected(ToError(e))
            /\ rpc' = "done"
            /\ events' = Append(events, "rejected")
            /\ UNCHANGED <<onRetryLog, waits, waitMs>>
       ELSE \* delayMs = ...; opts.onRetry?.(attempt, lastError); await delay(delayMs, delayMs)
            /\ onRetryLog' = IF opts.hasOnRetry
                                THEN Append(onRetryLog,
                                        [attempt |-> attempt - 1, error |-> ToError(e)])
                                ELSE onRetryLog
            /\ waits' = Append(waits, attempt)
            /\ \E r \in RandomQuarters, z \in ZSamples :
                  LET delayMs == withJitter(backoffDelay(attempt), r)
                  IN  waitMs' = Append(waitMs, delay(delayMs, delayMs, z))
            /\ events' = events \o (IF opts.hasOnRetry THEN <<"rejected", "onRetry">>
                                       ELSE <<"rejected">>) \o <<"delay">>
            /\ rpc' = "delay"
            /\ UNCHANGED settled
    /\ UNCHANGED <<opts, attempt, fnCalls>>
    /\ UNCHANGED <<breakerVars, timeoutVars, fuzzyVars, engineVars>>

\* catch (error) { ... }   -- fn's promise rejected with e; the whole catch
\* block up to the call of delay(): the predicate test and the last-attempt
\* test both end in `throw lastError`
retryCatch(e) ==
    /\ rpc = "awaitFn"
    /\ outcomes' = Append(outcomes, [ok |-> FALSE, thrown |-> e])
    /\ lastError' = ToError(e)
    /\ IF (opts.hasRetryOn /\ ~opts.retryOn[ToError(e).msg])
          \/ attempt = opts.maxAttempts
       THEN \* throw lastError
            /\ settled' = Rejected(ToError(e))
            /\ rpc' = "done"
            /\ events' = Append(events, "rejected")
            /\ UNCHANGED <<onRetryLog, waits, waitMs>>
       ELSE \* delayMs = ...; opts.onRetry?.(attempt, lastError); await delay(delayMs, delayMs)
            /\ onRetryLog' = IF opts.hasOnRetry
                                THEN Append(onRetryLog,
                                        [attempt |-> attempt, error |-> ToError(e)])
                                ELSE onRetryLog
            /\ waits' = Append(waits, attempt)
            /\ \E r \in RandomQuarters, z \in ZSamples :
                  LET delayMs == withJitter(backoffDelay(attempt), r)
                  IN  waitMs' = Append(waitMs, delay(delayMs, delayMs, z))
            /\ events' = events \o (IF opts.hasOnRetry THEN <<"rejected", "onRetry">>
                                       ELSE <<"rejected">>) \o <<"delay">>
            /\ rpc' = "delay"
            /\ UNCHANGED settled
    /\ UNCHANGED <<opts, attempt, fnCalls>>
    /\ UNCHANGED <<breakerVars, timeoutVars, fuzzyVars, engineVars>>

\* the delay() promise resolves; the loop's attempt++ runs
retryDelayElapsed ==
    /\ rpc = "delay"
    /\ attempt' = attempt + 1
    /\ rpc' = "loop"
    /\ UNCHANGED <<opts, lastError, fnCalls, outcomes, onRetryLog, waits, waitMs,
                   events, settled>>
    /\ UNCHANGED <<breakerVars, timeoutVars, fuzzyVars, engineVars>>

(***************************************************************************)
(* CircuitBreaker.  Callers share one instance; a call is suspended at     *)
(* `await fn()` between its admission and onSuccess/onFailure, and other    *)
(* calls, reset() and the clock may run in between.                        *)
(***************************************************************************)
Callers == {"a", "b"}

\* constructor defaults: options.x ?? default
DefaultFailureThreshold == 3
DefaultRecoveryTimeout == 10000
DefaultHalfOpenRequests == 1

CircuitBreakerOptionsSet ==
    [failureThreshold : 1..MaxThreshold,
     recoveryTimeout  : 1..MaxRecovery,
     halfOpenRequests : 1..MaxHalfOpen]

Idle == [pc |-> "idle", outcome |-> "none", remaining |-> 0]
Running == [pc |-> "running", outcome |-> "none", remaining |-> 0]
Returned == [pc |-> "settled", outcome |-> "value", remaining |-> 0]
Threw == [pc |-> "settled", outcome |-> "fnError", remaining |-> 0]
\* new CircuitOpenError(`Circuit is open. Recovery in ${r}ms`)
CircuitOpenError(r) == [pc |-> "settled", outcome |-> "CircuitOpenError", remaining |-> r]

\* what fn may throw inside execute(): an Error or a string
BreakerThrown == {t \in Thrown : t.msg = "fail1"}

\* the error object execute() creates when it refuses a call
OpenError == [kind |-> "CircuitOpenError", msg |-> "Circuit is open", fresh |-> TRUE]

\* execute() reaches `await fn()`: fn is invoked for caller c.  A call admitted
\* by the step that enters HalfOpen, or while HalfOpen, is a probe of that
\* episode; probes still running from an earlier episode are marked so.
invokeFn(c, entering) ==
    /\ invoked' = [invoked EXCEPT ![c] = @ + 1]
    /\ admitted' = [d \in Callers |->
                      IF d = c
                      THEN (IF entering \/ state = "half-open" THEN "probe" ELSE "closed")
                      ELSE IF entering /\ admitted[d] = "probe" THEN "earlier"
                      ELSE admitted[d]]
    /\ UNCHANGED <<callError, consec, fnError>>

\* execute() throws CircuitOpenError for caller c without invoking fn
refuse(c) ==
    /\ callError' = [callError EXCEPT ![c] = OpenError]
    /\ UNCHANGED <<invoked, admitted, consec, fnError>>

\* a wrong version of onSuccess: `>` for `>=`, one success too many is needed
onSuccess_StrictCount ==
    /\ failures' = 0
    /\ IF state = "half-open"
       THEN /\ successes' = successes + 1
            /\ state' = IF successes + 1 > cbOptions.halfOpenRequests
                        THEN "closed" ELSE state
       ELSE UNCHANGED <<successes, state>>
    /\ UNCHANGED lastFailureTime

\* a wrong version of onSuccess: the failure counter is left as it was
onSuccess_KeepFailures ==
    /\ IF state = "half-open"
       THEN /\ successes' = successes + 1
            /\ state' = IF successes + 1 >= cbOptions.halfOpenRequests
                        THEN "closed" ELSE state
       ELSE UNCHANGED <<successes, state>>
    /\ UNCHANGED <<failures, lastFailureTime>>

\* a wrong version of onSuccess: the failure counter is reset only when a
\* probe succeeds
onSuccess_ResetOnlyHalfOpen ==
    /\ IF state = "half-open"
       THEN /\ failures' = 0
            /\ successes' = successes + 1
            /\ state' = IF successes + 1 >= cbOptions.halfOpenRequests
                        THEN "closed" ELSE state
       ELSE UNCHANGED <<failures, successes, state>>
    /\ UNCHANGED lastFailureTime

\* private onSuccess()
onSuccess ==
    /\ failures' = 0
    /\ IF state = "half-open"
       THEN /\ successes' = successes + 1
            /\ state' = IF successes + 1 >= cbOptions.halfOpenRequests
                        THEN "closed" ELSE state
       ELSE UNCHANGED <<successes, state>>
    /\ UNCHANGED lastFailureTime

\* a wrong version of onFailure: `>` for `>=` in the threshold test
onFailure_StrictThreshold ==
    /\ failures' = failures + 1
    /\ lastFailureTime' = now
    /\ state' = IF state = "half-open" THEN "open"
                ELSE IF failures + 1 > cbOptions.failureThreshold THEN "open"
                ELSE state
    /\ UNCHANGED successes

\* a wrong version of onFailure: no half-open branch, a failed probe reopens
\* only through the threshold test
onFailure_NoHalfOpenBranch ==
    /\ failures' = failures + 1
    /\ lastFailureTime' = now
    /\ state' = IF failures + 1 >= cbOptions.failureThreshold THEN "open"
                ELSE state
    /\ UNCHANGED successes

\* private onFailure()
onFailure ==
    /\ failures' = failures + 1
    /\ lastFailureTime' = now
    /\ state' = IF state = "half-open" THEN "open"
                ELSE IF failures + 1 >= cbOptions.failureThreshold THEN "open"
                ELSE state
    /\ UNCHANGED successes

\* a wrong version of execute: `>` for `>=` in the cooldown test
execute_StrictTimeout(c) ==
    /\ call[c].pc = "idle"
    /\ IF state = "open"
       THEN LET timeSinceFailure == now - lastFailureTime IN
            IF timeSinceFailure > cbOptions.recoveryTimeout
            THEN /\ state' = "half-open"
                 /\ successes' = 0
                 /\ probeOk' = 0
                 /\ probeFailedAt' = -1
                 /\ call' = [call EXCEPT ![c] = Running]
                 /\ invokeFn(c, TRUE)
            ELSE /\ call' = [call EXCEPT ![c] =
                        CircuitOpenError(cbOptions.recoveryTimeout - timeSinceFailure)]
                 /\ refuse(c)
                 /\ UNCHANGED <<state, successes, probeOk, probeFailedAt>>
       ELSE /\ call' = [call EXCEPT ![c] = Running]
            /\ invokeFn(c, FALSE)
            /\ UNCHANGED <<state, successes, probeOk, probeFailedAt>>
    /\ UNCHANGED <<cbOptions, failures, lastFailureTime, now>>
    /\ UNCHANGED <<retryVars, timeoutVars, fuzzyVars, engineVars>>

\* a wrong version of execute: a rejected call is counted as a failure
execute_RejectionCounts(c) ==
    /\ call[c].pc = "idle"
    /\ IF state = "open"
       THEN LET timeSinceFailure == now - lastFailureTime IN
            IF timeSinceFailure >= cbOptions.recoveryTimeout
            THEN /\ state' = "half-open"
                 /\ successes' = 0
                 /\ probeOk' = 0
                 /\ probeFailedAt' = -1
                 /\ call' = [call EXCEPT ![c] = Running]
                 /\ invokeFn(c, TRUE)
                 /\ UNCHANGED <<failures, lastFailureTime>>
            ELSE /\ call' = [call EXCEPT ![c] =
                        CircuitOpenError(cbOptions.recoveryTimeout - timeSinceFailure)]
                 /\ refuse(c)
                 /\ failures' = failures + 1
                 /\ lastFailureTime' = now
                 /\ UNCHANGED <<state, successes, probeOk, probeFailedAt>>
       ELSE /\ call' = [call EXCEPT ![c] = Running]
            /\ invokeFn(c, FALSE)
            /\ UNCHANGED <<state, successes, probeOk, probeFailedAt,
                           failures, lastFailureTime>>
    /\ UNCHANGED <<cbOptions, now>>
    /\ UNCHANGED <<retryVars, timeoutVars, fuzzyVars, engineVars>>

\* execute(fn) up to `await fn()`: the open check, then the invocation of fn
execute(c) ==
    /\ call[c].pc = "idle"
    /\ IF state = "open"
       THEN LET timeSinceFailure == now - lastFailureTime IN
            IF timeSinceFailure >= cbOptions.recoveryTimeout
            THEN /\ state' = "half-open"
                 /\ successes' = 0
                 /\ probeOk' = 0
                 /\ probeFailedAt' = -1
                 /\ call' = [call EXCEPT ![c] = Running]
                 /\ invokeFn(c, TRUE)
            ELSE /\ call' = [call EXCEPT ![c] =
                        CircuitOpenError(cbOptions.recoveryTimeout - timeSinceFailure)]
                 /\ refuse(c)
                 /\ UNCHANGED <<state, successes, probeOk, probeFailedAt>>
       ELSE /\ call' = [call EXCEPT ![c] = Running]
            /\ invokeFn(c, FALSE)
            /\ UNCHANGED <<state, successes, probeOk, probeFailedAt>>
    /\ UNCHANGED <<cbOptions, failures, lastFailureTime, now>>
    /\ UNCHANGED <<retryVars, timeoutVars, fuzzyVars, engineVars>>

\* fn's promise fulfilled: this.onSuccess(); return result
executeResolved(c) ==
    /\ call[c].pc = "running"
    /\ onSuccess
    /\ call' = [call EXCEPT ![c] = Returned]
    /\ probeOk' = IF state = "half-open" THEN probeOk + 1 ELSE probeOk
    /\ consec' = 0
    /\ admitted' = [admitted EXCEPT ![c] = "none"]
    /\ UNCHANGED <<cbOptions, now, probeFailedAt, callError, invoked, fnError>>
    /\ UNCHANGED <<retryVars, timeoutVars, fuzzyVars, engineVars>>

\* a wrong version of executeRejected: the caught value is normalised to an
\* Error before it is rethrown, as retry() does
executeRejected_Wraps(c) ==
    /\ call[c].pc = "running"
    /\ onFailure
    /\ call' = [call EXCEPT ![c] = Threw]
    /\ probeFailedAt' = IF state = "half-open" THEN now ELSE probeFailedAt
    /\ consec' = consec + 1
    /\ admitted' = [admitted EXCEPT ![c] = "none"]
    /\ \E e \in BreakerThrown :
          /\ fnError' = [fnError EXCEPT ![c] = e]
          /\ callError' = [callError EXCEPT ![c] = ToError(e)]
    /\ UNCHANGED <<cbOptions, now, probeOk, invoked>>
    /\ UNCHANGED <<retryVars, timeoutVars, fuzzyVars, engineVars>>

\* fn's promise rejected with e: this.onFailure(); throw error
executeRejected(c) ==
    /\ call[c].pc = "running"
    /\ onFailure
    /\ call' = [call EXCEPT ![c] = Threw]
    /\ probeFailedAt' = IF state = "half-open" THEN now ELSE probeFailedAt
    /\ consec' = consec + 1
    /\ admitted' = [admitted EXCEPT ![c] = "none"]
    /\ \E e \in BreakerThrown :
          /\ fnError' = [fnError EXCEPT ![c] = e]
          /\ callError' = [callError EXCEPT ![c] = e]
    /\ UNCHANGED <<cbOptions, now, probeOk, invoked>>
    /\ UNCHANGED <<retryVars, timeoutVars, fuzzyVars, engineVars>>

\* the caller takes the settled result and may call again
callerContinues(c) ==
    /\ call[c].pc = "settled"
    /\ call' = [call EXCEPT ![c] = Idle]
    /\ callError' = [callError EXCEPT ![c] = NoError]
    /\ fnError' = [fnError EXCEPT ![c] = NoError]
    /\ invoked' = [invoked EXCEPT ![c] = 0]
    /\ UNCHANGED <<cbOptions, state, failures, successes, lastFailureTime, now,
                   probeOk, probeFailedAt, consec, admitted>>
    /\ UNCHANGED <<retryVars, timeoutVars, fuzzyVars, engineVars>>

\* a wrong version of reset: the state is forced, the counters are kept
reset_KeepsCounters ==
    /\ state' = "closed"
    /\ probeFailedAt' = -1
    /\ consec' = 0
    /\ UNCHANGED <<failures, successes>>
    /\ UNCHANGED <<cbOptions, lastFailureTime, now, call, probeOk, callError,
                   admitted, invoked, fnError>>
    /\ UNCHANGED <<retryVars, timeoutVars, fuzzyVars, engineVars>>

\* reset()
reset ==
    /\ state' = "closed"
    /\ failures' = 0
    /\ successes' = 0
    /\ probeFailedAt' = -1
    /\ consec' = 0
    /\ UNCHANGED <<cbOptions, lastFailureTime, now, call, probeOk, callError,
                   admitted, invoked, fnError>>
    /\ UNCHANGED <<retryVars, timeoutVars, fuzzyVars, engineVars>>

\* Date.now() advances
tick ==
    /\ now < MaxTime
    /\ now' = now + 1
    /\ UNCHANGED <<cbOptions, state, failures, successes, lastFailureTime, call,
                   probeOk, probeFailedAt, callError, breakerHist>>
    /\ UNCHANGED <<retryVars, timeoutVars, fuzzyVars, engineVars>>

(***************************************************************************)
(* withTimeout(fn, timeoutMs, errorMessage) and retryWithTimeout.  fn is   *)
(* an async function: it returns a promise and does not throw before it.   *)
(* Calls are numbered; retryWithTimeout numbers them by retry's attempt.   *)
(***************************************************************************)
DefaultErrorMessage == "Operation timed out"
ErrorMessages == {DefaultErrorMessage, "custom message"}

NotCalled == [kind |-> "none"]

\* what the operation may reject with
OpThrown == {t \in Thrown : t.msg = "fail1"}

\* new Error(errorMessage), created by the timer callback
TimeoutError(msg) == [kind |-> "Error", msg |-> msg, fresh |-> TRUE]

\* Promise.race([fn(), new Promise((_, reject) => setTimeout(..., timeoutMs))]):
\* fn is invoked and the timer armed in one synchronous step
withTimeout(k, msg) ==
    /\ op[k] = NotCalled
    /\ op' = [op EXCEPT ![k] = Pending]
    /\ timer' = [timer EXCEPT ![k] = "armed"]
    /\ race' = [race EXCEPT ![k] = Pending]
    /\ errorMessage' = [errorMessage EXCEPT ![k] = msg]
    /\ UNCHANGED first

\* a caller calls withTimeout directly
withTimeoutCall(k, msg) ==
    /\ withTimeout(k, msg)
    /\ UNCHANGED <<retryVars, breakerVars, fuzzyVars, engineVars>>

\* the promise of fn() fulfils; the race takes it unless already settled
fnResolves(k, v) ==
    /\ op[k] = Pending
    /\ op' = [op EXCEPT ![k] = Fulfilled(v)]
    /\ race' = [race EXCEPT ![k] = IF @ = Pending THEN Fulfilled(v) ELSE @]
    /\ first' = [first EXCEPT ![k] = IF @ = "none" THEN "fn" ELSE @]
    /\ UNCHANGED <<timer, errorMessage>>
    /\ UNCHANGED <<retryVars, breakerVars, fuzzyVars, engineVars>>

\* the promise of fn() rejects; the race takes it unless already settled
fnRejects(k, e) ==
    /\ op[k] = Pending
    /\ op' = [op EXCEPT ![k] = Rejected(e)]
    /\ race' = [race EXCEPT ![k] = IF @ = Pending THEN Rejected(e) ELSE @]
    /\ first' = [first EXCEPT ![k] = IF @ = "none" THEN "fn" ELSE @]
    /\ UNCHANGED <<timer, errorMessage>>
    /\ UNCHANGED <<retryVars, breakerVars, fuzzyVars, engineVars>>

\* a wrong version of timerFires: the timeout error replaces a settled outcome
timerFires_Overwrites(k) ==
    /\ timer[k] = "armed"
    /\ timer' = [timer EXCEPT ![k] = "fired"]
    /\ race' = [race EXCEPT ![k] = Rejected(TimeoutError(errorMessage[k]))]
    /\ first' = [first EXCEPT ![k] = IF @ = "none" THEN "timer" ELSE @]
    /\ UNCHANGED <<op, errorMessage>>
    /\ UNCHANGED <<retryVars, breakerVars, fuzzyVars, engineVars>>

\* setTimeout(() => reject(new Error(errorMessage)), timeoutMs) fires; the
\* timer is never cleared, so it fires after fn has settled too, and fn is
\* never cancelled, so its promise stays pending after a timeout
timerFires(k) ==
    /\ timer[k] = "armed"
    /\ timer' = [timer EXCEPT ![k] = "fired"]
    /\ race' = [race EXCEPT ![k] =
                    IF @ = Pending THEN Rejected(TimeoutError(errorMessage[k])) ELSE @]
    /\ first' = [first EXCEPT ![k] = IF @ = "none" THEN "timer" ELSE @]
    /\ UNCHANGED <<op, errorMessage>>
    /\ UNCHANGED <<retryVars, breakerVars, fuzzyVars, engineVars>>

\* retry(() => withTimeout(fn, timeoutMs), retryOptions): the attempt's call
\* of fn is a withTimeout call with the default message
retryWithTimeoutInvoke ==
    /\ loopInvoke
    /\ withTimeout(attempt, DefaultErrorMessage)

\* `return await fn()` of retry, fn being the withTimeout call of the attempt
raceFulfilled(v) ==
    /\ rpc = "awaitFn"
    /\ race[attempt] = Fulfilled(v)
    /\ retryReturn(v)

\* the catch block of retry, fn being the withTimeout call of the attempt
raceRejected(e) ==
    /\ rpc = "awaitFn"
    /\ race[attempt] = Rejected(e)
    /\ retryCatch(e)

(***************************************************************************)
(* retry(() => breaker.execute(fn), options): retry outside, the breaker   *)
(* inside.  The retry loop is caller "a" of the breaker; each attempt is   *)
(* one execute() call, whose settlement the loop then awaits.              *)
(***************************************************************************)
\* an attempt starts: retry calls its fn, which calls breaker.execute(fn)
retryBreakerInvoke ==
    /\ call["a"].pc = "idle"
    /\ retryInvoke

\* execute() of the attempt: refused, or fn is invoked
retryBreakerExecute ==
    /\ rpc = "awaitFn"
    /\ execute("a")

retryBreakerFnResolved ==
    /\ rpc = "awaitFn"
    /\ executeResolved("a")

retryBreakerFnRejected ==
    /\ rpc = "awaitFn"
    /\ executeRejected("a")

\* execute() returned: retry returns the value
retryBreakerReturn(v) ==
    /\ call["a"] = Returned
    /\ retryReturn(v)

\* execute() threw, fn's error or a CircuitOpenError: the catch block of retry
retryBreakerCatch ==
    /\ call["a"].pc = "settled"
    /\ call["a"].outcome # "value"
    /\ retryCatch(callError["a"])

\* the settled execute() call is done with
retryBreakerContinues ==
    /\ rpc # "awaitFn"
    /\ callerContinues("a")

(***************************************************************************)
(* fuzzyScore(needle, haystack).  Strings are sequences of characters; a   *)
(* score is a fraction in lowest terms, since the last rule divides by the *)
(* needle's length.                                                        *)
(***************************************************************************)
Alphabet == {"a", "b", " "}
Whitespace == {" "}

StringsUpTo(n) == UNION {[1..k -> Alphabet] : k \in 0..n}

RECURSIVE GCD(_, _)
GCD(a, b) == IF b = 0 THEN a ELSE GCD(b, a % b)

\* the number a / b, b > 0
Fraction(a, b) == <<a \div GCD(a, b), b \div GCD(a, b)>>

NoScore == <<-1, 1>>

\* h.startsWith(n)
startsWith(h, n) == Len(n) <= Len(h) /\ SubSeq(h, 1, Len(n)) = n

\* h.includes(n)
includes(h, n) ==
    \E i \in 0..(Len(h) - Len(n)) : \A j \in 1..Len(n) : h[i + j] = n[j]

RECURSIVE splitFrom(_, _, _, _)
\* s.split(/\s+/) from position i on: cur is the token being read, acc the
\* tokens closed so far; a run of whitespace closes one token, also an empty
\* one at the start of s, and the end of s closes the last, possibly empty
splitFrom(s, i, cur, acc) ==
    IF i > Len(s) THEN Append(acc, cur)
    ELSE IF s[i] \in Whitespace
         THEN IF i > 1 /\ s[i - 1] \in Whitespace
              THEN splitFrom(s, i + 1, cur, acc)
              ELSE splitFrom(s, i + 1, <<>>, Append(acc, cur))
         ELSE splitFrom(s, i + 1, Append(cur, s[i]), acc)

\* s.split(/\s+/)
split(s) == splitFrom(s, 1, <<>>, <<>>)

\* a wrong version of matches: a character that occurs twice in n counts once
matches_Distinct(n, h) ==
    Cardinality({c \in Alphabet :
                    (\E i \in 1..Len(n) : n[i] = c) /\ includes(h, <<c>>)})

\* for (const char of n) if (h.includes(char)) matches++
matches(n, h) == Cardinality({i \in 1..Len(n) : includes(h, <<n[i]>>)})

\* a wrong version of fuzzyScore: the all-words rule is tried before the
\* prefix rule
fuzzyScore_WordsFirst(n, h) ==
    LET needleWords == split(n)
        allWordsMatch == \A j \in 1..Len(needleWords) : includes(h, needleWords[j])
    IN  IF h = n THEN Fraction(100, 1)
        ELSE IF allWordsMatch THEN Fraction(60, 1)
        ELSE IF startsWith(h, n) THEN Fraction(80, 1)
        ELSE IF includes(h, n) THEN Fraction(40, 1)
        ELSE Fraction(matches(n, h) * 20, Len(n))

\* a wrong version of fuzzyScore: the contains rule is tried before the
\* all-words rule
fuzzyScore_ContainsFirst(n, h) ==
    LET needleWords == split(n)
        allWordsMatch == \A j \in 1..Len(needleWords) : includes(h, needleWords[j])
    IN  IF h = n THEN Fraction(100, 1)
        ELSE IF startsWith(h, n) THEN Fraction(80, 1)
        ELSE IF includes(h, n) THEN Fraction(40, 1)
        ELSE IF allWordsMatch THEN Fraction(60, 1)
        ELSE Fraction(matches(n, h) * 20, Len(n))

\* fuzzyScore(needle, haystack), the arguments written n and h
fuzzyScore(n, h) ==
    LET needleWords == split(n)
        allWordsMatch == \A j \in 1..Len(needleWords) : includes(h, needleWords[j])
    IN  IF h = n THEN Fraction(100, 1)
        ELSE IF startsWith(h, n) THEN Fraction(80, 1)
        ELSE IF allWordsMatch THEN Fraction(60, 1)
        ELSE IF includes(h, n) THEN Fraction(40, 1)
        ELSE Fraction(matches(n, h) * 20, Len(n))

\* one call of fuzzyScore on the arguments of the state
fuzzyScoreCall ==
    /\ fpc = "call"
    /\ fscore' = fuzzyScore(needle, haystack)
    /\ fpc' = "returned"
    /\ UNCHANGED <<needle, haystack>>
    /\ UNCHANGED <<retryVars, breakerVars, timeoutVars, engineVars>>

(***************************************************************************)
(* fillAsyncTypeahead, from `const count = await results.count()` on: the  *)
(* result items of the page are scored against the desired value and the   *)
(* best one is clicked.  The result list is taken not to change once the   *)
(* results container has opened.                                           *)
(***************************************************************************)
\* characters of values and result texts; "A" is the upper case of "a"
TextAlphabet == {"a", "A", "b"}

Texts == UNION {[1..k -> TextAlphabet] : k \in 0..MaxText}

ResultLists == UNION {[1..k -> Texts] : k \in 0..MaxResults}

\* the upper-case letters that occur in the model's strings
LOWER == [A |-> "a", H |-> "h", P |-> "p", S |-> "s", T |-> "t", W |-> "w"]

\* s.toLowerCase()
toLowerCase(s) ==
    [i \in 1..Len(s) |-> IF s[i] \in DOMAIN LOWER THEN LOWER[s[i]] ELSE s[i]]

\* x > y for fractions with positive denominators
Greater(x, y) == x[1] * y[2] > y[1] * x[2]

\* no typeahead is being resolved
TypeaheadIdle ==
    /\ value = <<>>
    /\ results = <<>>
    /\ count = 0
    /\ idx = 0
    /\ bestIndex = 0
    /\ bestScore = NoScore
    /\ clicks = <<>>
    /\ tpc = "idle"

\* no humanType call is running
TypingIdle ==
    /\ content = <<>>
    /\ wordIdx = 0
    /\ charIdx = 0
    /\ pressed = <<>>
    /\ charPause = -1
    /\ hpc = "idle"

\* getInputBehavior and shouldPaste are not being called
InputIdle ==
    /\ inputText = <<>>
    /\ behavior = "none"
    /\ pasteAnswer = "none"
    /\ ipc = "idle"

MouseIdle ==
    /\ currentPos = [x |-> 0, y |-> 0]
    /\ targetPos = [x |-> 0, y |-> 0]
    /\ bezierPoints = <<>>
    /\ steps = 0
    /\ stepIdx = 0
    /\ moves = <<>>
    /\ mpc = "idle"

RandomIdle ==
    /\ rndMin = 0
    /\ rndMax = 0
    /\ rndBetween = -1
    /\ rndInt = -1

FillIdle ==
    /\ fillText = <<>>
    /\ field = <<>>
    /\ metaSelectsAll = TRUE
    /\ fillBehavior = "none"
    /\ typeCount = -1
    /\ fillpc = "idle"

ChipsIdle ==
    /\ skills = <<>>
    /\ chips = {}
    /\ selected = {}
    /\ wasSelected = {}
    /\ mappedSkills = <<>>
    /\ chipsToClick = <<>>
    /\ chipIdx = 0
    /\ cpc = "idle"

PageIdle == MouseIdle /\ RandomIdle /\ FillIdle /\ ChipsIdle

EngineIdle == TypeaheadIdle /\ TypingIdle /\ InputIdle /\ PageIdle

\* a wrong version of resultsCount: the empty list is not rejected
resultsCount_NoEmptyCheck ==
    /\ tpc = "count"
    /\ count' = Len(results)
    /\ tpc' = "loop"
    /\ idx' = 0
    /\ bestIndex' = 0
    /\ bestScore' = NoScore
    /\ UNCHANGED <<value, results, clicks>>
    /\ UNCHANGED <<retryVars, breakerVars, timeoutVars, fuzzyVars, typingVars, inputVars, pageVars>>

\* const count = await results.count();
\* if (count === 0) throw new Error(`No results for: ${value}`);
\* let bestIndex = 0; let bestScore = -1; for (let i = 0; ...
resultsCount ==
    /\ tpc = "count"
    /\ count' = Len(results)
    /\ tpc' = IF Len(results) = 0 THEN "threw" ELSE "loop"
    /\ idx' = 0
    /\ bestIndex' = 0
    /\ bestScore' = NoScore
    /\ UNCHANGED <<value, results, clicks>>
    /\ UNCHANGED <<retryVars, breakerVars, timeoutVars, fuzzyVars, typingVars, inputVars, pageVars>>

\* a wrong version of scoreResult: an equal score replaces the best one
scoreResult_LastWins ==
    /\ tpc = "loop"
    /\ idx < count
    /\ LET text == results[idx + 1]
           score == fuzzyScore(toLowerCase(value), toLowerCase(text))
       IN  IF ~Greater(bestScore, score)
           THEN bestScore' = score /\ bestIndex' = idx
           ELSE UNCHANGED <<bestScore, bestIndex>>
    /\ idx' = idx + 1
    /\ UNCHANGED <<value, results, count, clicks, tpc>>
    /\ UNCHANGED <<retryVars, breakerVars, timeoutVars, fuzzyVars, typingVars, inputVars, pageVars>>

\* a wrong version of scoreResult: the result text is not lower-cased
scoreResult_NoLowerCase ==
    /\ tpc = "loop"
    /\ idx < count
    /\ LET text == results[idx + 1]
           score == fuzzyScore(toLowerCase(value), text)
       IN  IF Greater(score, bestScore)
           THEN bestScore' = score /\ bestIndex' = idx
           ELSE UNCHANGED <<bestScore, bestIndex>>
    /\ idx' = idx + 1
    /\ UNCHANGED <<value, results, count, clicks, tpc>>
    /\ UNCHANGED <<retryVars, breakerVars, timeoutVars, fuzzyVars, typingVars, inputVars, pageVars>>

\* one iteration of the loop: text = await results.nth(i).textContent() || '';
\* score = fuzzyScore(value.toLowerCase(), text.toLowerCase());
\* if (score > bestScore) { bestScore = score; bestIndex = i; }   i++
scoreResult ==
    /\ tpc = "loop"
    /\ idx < count
    /\ LET text == results[idx + 1]
           score == fuzzyScore(toLowerCase(value), toLowerCase(text))
       IN  IF Greater(score, bestScore)
           THEN bestScore' = score /\ bestIndex' = idx
           ELSE UNCHANGED <<bestScore, bestIndex>>
    /\ idx' = idx + 1
    /\ UNCHANGED <<value, results, count, clicks, tpc>>
    /\ UNCHANGED <<retryVars, breakerVars, timeoutVars, fuzzyVars, typingVars, inputVars, pageVars>>

\* the loop has ended: await results.nth(bestIndex).click()
clickBest ==
    /\ tpc = "loop"
    /\ idx >= count
    /\ clicks' = Append(clicks, bestIndex)
    /\ tpc' = "done"
    /\ UNCHANGED <<value, results, count, idx, bestIndex, bestScore>>
    /\ UNCHANGED <<retryVars, breakerVars, timeoutVars, fuzzyVars, typingVars, inputVars, pageVars>>

(***************************************************************************)
(* humanType.  Every locator.press() is a step; the sleeps between the     *)
(* presses change nothing but the clock, and only the pause after a typed  *)
(* character is recorded.  The locator calls are taken to succeed.         *)
(***************************************************************************)
HumanConfig ==
    [typing |-> [minDelay |-> Ms(45), maxDelay |-> Ms(140)],
     mouse |-> [moveSteps |-> 15]]

\* the keys adjacent to a key
TYPO_MAP ==
    [a |-> <<"s", "q", "w">>, b |-> <<"v", "n", "g">>, c |-> <<"x", "v", "d">>,
     d |-> <<"s", "f", "e">>, e |-> <<"w", "r", "d">>, f |-> <<"d", "g", "r">>,
     g |-> <<"f", "h", "t">>]

\* characters of the typed texts: one with adjacent keys, one without, space
ContentAlphabet == {"a", "x", " "}

Contents == UNION {[1..k -> ContentAlphabet] : k \in 0..MaxContent}

\* getTypo(char), r being the randomInt(0, typos.length - 1) drawn
getTypo(char, r) ==
    LET lower == toLowerCase(<<char>>)[1]
    IN  IF lower \in DOMAIN TYPO_MAP
        THEN TYPO_MAP[lower][(r % Len(TYPO_MAP[lower])) + 1]
        ELSE char

\* the values randomInt(0, typos.length - 1) may return
TypoDraws == 0..(Len(TYPO_MAP.a) - 1)

\* s.split(' '): every space is a separator, so the tokens are the stretches
\* between consecutive spaces, the start and the end, empty ones included
splitSpace(s) ==
    LET spaces == {k \in 1..Len(s) : s[k] = " "}
        at(j) == IF j = 0 THEN 0
                 ELSE IF j > Cardinality(spaces) THEN Len(s) + 1
                 ELSE CHOOSE k \in spaces : Cardinality({x \in spaces : x < k}) = j - 1
    IN  [j \in 1..(Cardinality(spaces) + 1) |-> SubSeq(s, at(j - 1) + 1, at(j) - 1)]

\* a wrong version of words: runs of spaces are taken as one separator
words_Collapsing == split(content)

\* const words = content.split(' ')
words == splitSpace(content)

\* where the loops stand with word index wi and character index ci: before a
\* character of the word, before the space after it, or past the last word
position(wi, ci) ==
    IF ci < Len(words[wi + 1]) THEN "char"
    ELSE IF wi < Len(words) - 1 THEN "space"
    ELSE "done"

\* Math.max(a, g) for a number a and a sample g that may be infinite
mathMax(a, g) ==
    IF g.nan \/ g.inf = 1 THEN g
    ELSE IF g.inf = -1 THEN [nan |-> FALSE, inf |-> 0, n |-> a]
    ELSE [nan |-> FALSE, inf |-> 0, n |-> Max(a, g.n)]

\* await locator.focus(); await microDelay(); const words = content.split(' ')
focus ==
    /\ hpc = "focus"
    /\ hpc' = position(0, 0)
    /\ UNCHANGED <<content, wordIdx, charIdx, pressed, charPause>>
    /\ UNCHANGED <<retryVars, breakerVars, timeoutVars, fuzzyVars, typeaheadVars, inputVars, pageVars>>

\* a wrong version of pressTypo: the last character of a word may get a typo
pressTypo_AnyPosition(r) ==
    /\ hpc = "char"
    /\ pressed' = Append(pressed,
            [key |-> getTypo(words[wordIdx + 1][charIdx + 1], r), kind |-> "typo",
             w |-> wordIdx, i |-> charIdx])
    /\ hpc' = "backspace"
    /\ UNCHANGED <<content, wordIdx, charIdx, charPause>>
    /\ UNCHANGED <<retryVars, breakerVars, timeoutVars, fuzzyVars, typeaheadVars, inputVars, pageVars>>

\* if (Math.random() < mistakeRate && i < word.length - 1)
\*     { const typo = getTypo(char); await locator.press(typo); await delay(..)
pressTypo(r) ==
    /\ hpc = "char"
    /\ charIdx < Len(words[wordIdx + 1]) - 1
    /\ pressed' = Append(pressed,
            [key |-> getTypo(words[wordIdx + 1][charIdx + 1], r), kind |-> "typo",
             w |-> wordIdx, i |-> charIdx])
    /\ hpc' = "backspace"
    /\ UNCHANGED <<content, wordIdx, charIdx, charPause>>
    /\ UNCHANGED <<retryVars, breakerVars, timeoutVars, fuzzyVars, typeaheadVars, inputVars, pageVars>>

\* await locator.press('Backspace'); await delay(50, 150) }
pressBackspace ==
    /\ hpc = "backspace"
    /\ pressed' = Append(pressed,
            [key |-> "Backspace", kind |-> "backspace", w |-> wordIdx, i |-> charIdx])
    /\ hpc' = "correct"
    /\ UNCHANGED <<content, wordIdx, charIdx, charPause>>
    /\ UNCHANGED <<retryVars, breakerVars, timeoutVars, fuzzyVars, typeaheadVars, inputVars, pageVars>>

\* await locator.press(char);
\* charDelay = gaussianRandom((minDelay + maxDelay) / 2, (maxDelay - minDelay) / 4);
\* await new Promise(r => setTimeout(r, Math.max(minDelay, charDelay)));   i++
\* -- taken without a typo (Math.random() >= mistakeRate or the last character
\* of the word) or after the typo and its Backspace
pressChar(z) ==
    /\ hpc \in {"char", "correct"}
    /\ pressed' = Append(pressed,
            [key |-> words[wordIdx + 1][charIdx + 1], kind |-> "char",
             w |-> wordIdx, i |-> charIdx])
    /\ LET minDelay == HumanConfig.typing.minDelay
           maxDelay == HumanConfig.typing.maxDelay
           charDelay == gaussianRandom((minDelay + maxDelay) \div 2,
                                       (maxDelay - minDelay) \div 4, z)
       IN  charPause' = setTimeout(mathMax(minDelay, charDelay))
    /\ charIdx' = charIdx + 1
    /\ hpc' = position(wordIdx, charIdx + 1)
    /\ UNCHANGED <<content, wordIdx>>
    /\ UNCHANGED <<retryVars, breakerVars, timeoutVars, fuzzyVars, typeaheadVars, inputVars, pageVars>>

\* if (w < words.length - 1) { await locator.press(' '); ...pause... }   w++
pressSpace ==
    /\ hpc = "space"
    /\ pressed' = Append(pressed,
            [key |-> " ", kind |-> "space", w |-> wordIdx, i |-> charIdx])
    /\ wordIdx' = wordIdx + 1
    /\ charIdx' = 0
    /\ hpc' = position(wordIdx + 1, 0)
    /\ UNCHANGED <<content, charPause>>
    /\ UNCHANGED <<retryVars, breakerVars, timeoutVars, fuzzyVars, typeaheadVars, inputVars, pageVars>>

(***************************************************************************)
(* getInputBehavior(text) and shouldPaste(text).  A text is made of a few  *)
(* fragments followed by filler characters "x" that bring it to a length   *)
(* around the thresholds 50 and 200 (a fragment of 2 characters gives 49   *)
(* and 200, one of 3 gives 50 and 201).  Math.random() is drawn in         *)
(* hundredths.                                                             *)
(***************************************************************************)
Fragments ==
    { <<"h", "t", "t", "p">>,
      <<"H", "T", "T", "P", "S">>,
      <<":", "/", "/">>,
      <<"W", "w", "w", ".">>,
      <<"l", "i", "n", "k", "e", "d", "i", "n", ".", "c", "o", "m">>,
      <<"g", "i", "t", "h", "u", "b", ".", "c", "o", "m">>,
      <<"a", "@", "b">>,
      <<".", "c", "o">>,
      <<".">>,
      <<"a", "b">>,
      <<"\n">> }

RECURSIVE Concat(_)
\* the concatenation of a sequence of strings
Concat(ss) == IF ss = <<>> THEN <<>> ELSE Head(ss) \o Concat(Tail(ss))

\* the numbers of filler characters
Fillers == {0, 47, 198}

InputTexts ==
    {Concat(fs) \o [j \in 1..n |-> "x"] :
        fs \in UNION {[1..k -> Fragments] : k \in 0..MaxFragments}, n \in Fillers}

\* the characters `.` of a regular expression does not match
LineTerminators == {"\n", "\r"}

\* /^https?:\/\//i.test(t)
patternProtocol(t) ==
    \/ startsWith(toLowerCase(t), <<"h", "t", "t", "p", ":", "/", "/">>)
    \/ startsWith(toLowerCase(t), <<"h", "t", "t", "p", "s", ":", "/", "/">>)

\* /^www\./i.test(t)
patternWww(t) == startsWith(toLowerCase(t), <<"w", "w", "w", ".">>)

\* /linkedin\.com/i.test(t)
patternLinkedin(t) ==
    includes(toLowerCase(t),
             <<"l", "i", "n", "k", "e", "d", "i", "n", ".", "c", "o", "m">>)

\* /github\.com/i.test(t)
patternGithub(t) ==
    includes(toLowerCase(t), <<"g", "i", "t", "h", "u", "b", ".", "c", "o", "m">>)

\* /@.*\..{2,}/.test(t): an "@", any characters but line terminators, a ".",
\* and two more characters that are not line terminators
patternEmail(t) ==
    \E a \in {k \in 1..Len(t) : t[k] = "@"} :
      \E b \in {k \in (a + 1)..(Len(t) - 2) : t[k] = "."} :
        /\ \A j \in (a + 1)..(b - 1) : t[j] \notin LineTerminators
        /\ t[b + 1] \notin LineTerminators
        /\ t[b + 2] \notin LineTerminators

\* PASTE_PATTERNS.some(pattern => pattern.test(t))
PASTE_PATTERNS(t) ==
    \/ patternProtocol(t)
    \/ patternWww(t)
    \/ patternLinkedin(t)
    \/ patternGithub(t)
    \/ patternEmail(t)

\* the values of Math.random(), in hundredths, around the thresholds
RandomHundredths == {24, 25, 54, 55, 69, 70, 79, 80}

\* a wrong version of getInputBehavior: the length of a short text is tested
\* before the paste patterns
getInputBehavior_LengthFirst(t, rand) ==
    IF Len(t) < 50 THEN "type"
    ELSE IF PASTE_PATTERNS(t) THEN "paste"
    ELSE IF Len(t) <= 200 THEN (IF rand < 70 THEN "type" ELSE "paste")
    ELSE IF rand < 25 THEN "type"
    ELSE IF rand < 55 THEN "paste"
    ELSE IF rand < 80 THEN "paste-then-edit"
    ELSE "type-some-paste-rest"

\* a wrong version of getInputBehavior: a text of exactly 200 characters is
\* treated as a long one
getInputBehavior_StrictMedium(t, rand) ==
    IF PASTE_PATTERNS(t) THEN "paste"
    ELSE IF Len(t) < 50 THEN "type"
    ELSE IF Len(t) < 200 THEN (IF rand < 70 THEN "type" ELSE "paste")
    ELSE IF rand < 25 THEN "type"
    ELSE IF rand < 55 THEN "paste"
    ELSE IF rand < 80 THEN "paste-then-edit"
    ELSE "type-some-paste-rest"

\* getInputBehavior(text), rand being the Math.random() it draws
getInputBehavior(t, rand) ==
    IF PASTE_PATTERNS(t) THEN "paste"
    ELSE IF Len(t) < 50 THEN "type"
    ELSE IF Len(t) <= 200 THEN (IF rand < 70 THEN "type" ELSE "paste")
    ELSE IF rand < 25 THEN "type"
    ELSE IF rand < 55 THEN "paste"
    ELSE IF rand < 80 THEN "paste-then-edit"
    ELSE "type-some-paste-rest"

\* shouldPaste(text): getInputBehavior(text) !== 'type'
shouldPaste(t, rand) == getInputBehavior(t, rand) # "type"

\* one call of getInputBehavior on the text
getInputBehaviorCall(rand) ==
    /\ ipc = "ready"
    /\ behavior' = getInputBehavior(inputText, rand)
    /\ UNCHANGED <<inputText, pasteAnswer, ipc>>
    /\ UNCHANGED <<retryVars, breakerVars, timeoutVars, fuzzyVars, typeaheadVars, typingVars, pageVars>>

\* one call of shouldPaste on the text
shouldPasteCall(rand) ==
    /\ ipc = "ready"
    /\ pasteAnswer' = IF shouldPaste(inputText, rand) THEN "true" ELSE "false"
    /\ UNCHANGED <<inputText, behavior, ipc>>
    /\ UNCHANGED <<retryVars, breakerVars, timeoutVars, fuzzyVars, typeaheadVars, typingVars, pageVars>>

(***************************************************************************)
(* randomBetween and randomInt.  A number is a binary floating-point value *)
(* with Precision significant bits, held as a count of units of            *)
(* 2^-(Precision-1); every operation rounds its exact result to the        *)
(* nearest such value, ties to the even one, as IEEE 754 arithmetic does   *)
(* with 53 bits.  Math.random() returns a multiple of the unit in [0, 1).  *)
(***************************************************************************)
Precision == 4

MaxRange == 4

Unit == Pow(2, Precision - 1)

\* the draws of Math.random(), in units
RandomUnits == 0..(Unit - 1)

RECURSIVE quantum(_, _)
\* the spacing of the representable values around v
quantum(v, q) == IF v < Pow(2, Precision) * q THEN q ELSE quantum(v, 2 * q)

\* round to nearest, ties to even
roundEven(v) ==
    LET q == quantum(v, 1)
        below == (v \div q) * q
        rest == v - below
    IN  IF 2 * rest < q THEN below
        ELSE IF 2 * rest > q THEN below + q
        ELSE IF (below \div q) % 2 = 0 THEN below ELSE below + q

\* a whole number as a Number
Number(k) == roundEven(k * Unit)

\* a + b and a - b
fadd(a, b) == roundEven(a + b)

fsub(a, b) == roundEven(a - b)

\* a * b, b a whole number of units
fmul(a, b) == roundEven((a * b) \div Unit)

\* Math.floor, as a whole number
floor(v) == v \div Unit

\* return min + Math.random() * (max - min);
randomBetween(min, max, r) == fadd(min, fmul(r, fsub(max, min)))

\* return Math.floor(randomBetween(min, max + 1));
randomInt(min, max, r) == floor(randomBetween(min, fadd(max, Number(1)), r))

randomBetweenCall(r) ==
    /\ rndBetween' = randomBetween(Number(rndMin), Number(rndMax), r)
    /\ UNCHANGED <<rndMin, rndMax, rndInt>>
    /\ UNCHANGED <<retryVars, breakerVars, timeoutVars, fuzzyVars,
                   typeaheadVars, typingVars, inputVars, mouseVars, fillVars, chipVars>>

randomIntCall(r) ==
    /\ rndInt' = randomInt(Number(rndMin), Number(rndMax), r)
    /\ UNCHANGED <<rndMin, rndMax, rndBetween>>
    /\ UNCHANGED <<retryVars, breakerVars, timeoutVars, fuzzyVars,
                   typeaheadVars, typingVars, inputVars, mouseVars, fillVars, chipVars>>

(***************************************************************************)
(* humanMouseMove: a cubic Bezier path from the centre of the viewport to  *)
(* the target.  Coordinates are pixels; the curve parameter, the weights   *)
(* and the points of the curve are fixed-point numbers with ten binary     *)
(* digits, Fx(1) standing for 1.  Every product is rounded down to that    *)
(* resolution, in the order in which the source multiplies.                *)
(***************************************************************************)
MaxSteps == 3

Fx(x) == x * 1024

FxMul(a, b) == (a * b) \div Fx(1)

StepCounts == (1..MaxSteps) \cup {HumanConfig.mouse.moveSteps}

\* page.viewportSize() ?? { width: 1280, height: 720 }
Viewports == {[width |-> 1280, height |-> 720], [width |-> 800, height |-> 600]}

Targets == {[x |-> 0, y |-> 0], [x |-> 640, y |-> 360], [x |-> 100, y |-> 700]}

RECURSIVE sqrtBetween(_, _, _)
sqrtBetween(n, lo, hi) ==
    IF lo >= hi THEN lo
    ELSE LET mid == (lo + hi + 1) \div 2
         IN  IF mid * mid <= n THEN sqrtBetween(n, mid, hi)
             ELSE sqrtBetween(n, lo, mid - 1)

\* Math.sqrt on a whole number, rounded down
sqrt(n) == sqrtBetween(n, 0, Min(n, 2048))

\* Math.cos and Math.sin of Math.random() * Math.PI * 2, for the draws
\* 0, 0.25, 0.5 and 0.75
cos(q) == CASE q = 0 -> Fx(1) [] q = 2 -> -Fx(1) [] OTHER -> 0

sin(q) == CASE q = 1 -> Fx(1) [] q = 3 -> -Fx(1) [] OTHER -> 0

generateBezierPoints(start, end, q1, q2) ==
    LET dx == end.x - start.x
        dy == end.y - start.y
        controlDistance == (Fx(sqrt(dx * dx + dy * dy)) * 3) \div 10
        control1 == [x |-> Fx(start.x) + FxMul(controlDistance, cos(q1)) \div 2,
                     y |-> Fx(start.y) + FxMul(controlDistance, sin(q1)) \div 2]
        control2 == [x |-> Fx(end.x) + (FxMul(controlDistance, cos(q2)) * 3) \div 10,
                     y |-> Fx(end.y) + (FxMul(controlDistance, sin(q2)) * 3) \div 10]
    IN  <<[x |-> Fx(start.x), y |-> Fx(start.y)], control1, control2,
          [x |-> Fx(end.x), y |-> Fx(end.y)]>>

bezierPoint(t, points) ==
    LET p0 == points[1]
        p1 == points[2]
        p2 == points[3]
        p3 == points[4]
        u == Fx(1) - t
        b0 == FxMul(FxMul(u, u), u)
        b1 == FxMul(FxMul(3 * u, u), t)
        b2 == FxMul(FxMul(3 * u, t), t)
        b3 == FxMul(FxMul(t, t), t)
    IN  [x |-> FxMul(b0, p0.x) + FxMul(b1, p1.x) + FxMul(b2, p2.x) + FxMul(b3, p3.x),
         y |-> FxMul(b0, p0.y) + FxMul(b1, p1.y) + FxMul(b2, p2.y) + FxMul(b3, p3.y)]

\* the ease-out remap 1 - Math.pow(1 - t, 3)
eased(t) == Fx(1) - FxMul(FxMul(Fx(1) - t, Fx(1) - t), Fx(1) - t)

\* const bezierPoints = generateBezierPoints(currentPos, targetPos);
\* const steps = HumanConfig.mouse.moveSteps;
humanMouseMove(q1, q2) ==
    /\ mpc = "generate"
    /\ bezierPoints' = generateBezierPoints(currentPos, targetPos, q1, q2)
    /\ stepIdx' = 0
    /\ mpc' = "loop"
    /\ UNCHANGED <<currentPos, targetPos, steps, moves>>
    /\ UNCHANGED <<retryVars, breakerVars, timeoutVars, fuzzyVars,
                   typeaheadVars, typingVars, inputVars, randomVars, fillVars, chipVars>>

\* a wrong version of mouseMove: the loop runs while i < steps
mouseMove_Exclusive ==
    /\ mpc = "loop"
    /\ stepIdx < steps
    /\ LET t == Fx(stepIdx) \div steps
           point == bezierPoint(eased(t), bezierPoints)
       IN  moves' = Append(moves, point)
    /\ stepIdx' = stepIdx + 1
    /\ mpc' = IF stepIdx + 1 < steps THEN "loop" ELSE "done"
    /\ UNCHANGED <<currentPos, targetPos, bezierPoints, steps>>
    /\ UNCHANGED <<retryVars, breakerVars, timeoutVars, fuzzyVars,
                   typeaheadVars, typingVars, inputVars, randomVars, fillVars, chipVars>>

\* one turn of for (let i = 0; i <= steps; i++): one page.mouse.move()
mouseMove ==
    /\ mpc = "loop"
    /\ stepIdx <= steps
    /\ LET t == Fx(stepIdx) \div steps
           point == bezierPoint(eased(t), bezierPoints)
       IN  moves' = Append(moves, point)
    /\ stepIdx' = stepIdx + 1
    /\ mpc' = IF stepIdx + 1 <= steps THEN "loop" ELSE "done"
    /\ UNCHANGED <<currentPos, targetPos, bezierPoints, steps>>
    /\ UNCHANGED <<retryVars, breakerVars, timeoutVars, fuzzyVars,
                   typeaheadVars, typingVars, inputVars, randomVars, fillVars, chipVars>>

(***************************************************************************)
(* humanFill and humanPaste.  The field is a text input whose content is a *)
(* sequence of characters; a click puts the caret at the end of it, fill() *)
(* replaces it, a pressed character is appended and Backspace deletes the  *)
(* selection or, without one, the last character.  Meta+A selects all      *)
(* where the browser runs on macOS and does nothing elsewhere.  The text   *)
(* typed by humanType reaches the field when humanType returns.            *)
(***************************************************************************)
MaxWords == 4

\* the first words of the texts: one with a key that has neighbours
FillWords == [k \in 1..MaxWords |-> IF k = 1 THEN <<"a", "b">> ELSE <<"x", "x">>]

RECURSIVE join(_)
\* ws.join(' ')
join(ws) ==
    IF ws = <<>> THEN <<>>
    ELSE IF Len(ws) = 1 THEN ws[1]
    ELSE ws[1] \o <<" ">> \o join(Tail(ws))

\* ws.slice(from, to)
slice(ws, from, to) == SubSeq(ws, from + 1, Min(to, Len(ws)))

\* a text of n words, each followed by a space, and then m filler characters
FillText(n, m) ==
    Concat([k \in 1..n |-> FillWords[k] \o <<" ">>]) \o [j \in 1..m |-> "x"]

\* texts shorter than 50 characters and longer than 200, of any number of
\* words; one of exactly 50; and one that matches a paste pattern
FillTexts ==
    {FillText(n, m) : n \in 0..MaxWords, m \in {0, 201}}
    \cup {FillText(1, 47)}
    \cup {<<"a", "@", "b", ".", "c", "o">>}

\* the values of Math.random() drawn by getInputBehavior, in hundredths: a
\* text of more than 200 characters is pasted, pasted and edited, or typed
\* in part; one of 50 to 200 is typed or pasted
FillDraws == {25, 55, 80}

\* most typos made by one humanType call
MaxTypos == 1

\* what the field may hold before the call
FieldContents == {<<>>, <<"o", "l", "d">>}

RECURSIVE applyKeys(_, _, _, _)
\* the content after the keys ks[lo..hi] were pressed in order with the caret
\* at the end of f, first one half of them and then the other
applyKeys(f, ks, lo, hi) ==
    IF lo > hi THEN f
    ELSE IF lo = hi
         THEN (IF ks[lo].key = "Backspace" THEN SubSeq(f, 1, Len(f) - 1)
               ELSE Append(f, ks[lo].key))
    ELSE LET mid == (lo + hi) \div 2
         IN  applyKeys(applyKeys(f, ks, lo, mid), ks, mid + 1, hi)

\* const behavior = getInputBehavior(text); ... switch (behavior)
humanFill(rand) ==
    /\ fillpc = "start"
    /\ fillBehavior' = getInputBehavior(fillText, rand)
    /\ fillpc' = CASE getInputBehavior(fillText, rand) = "paste" -> "paste"
                   [] getInputBehavior(fillText, rand) = "paste-then-edit" -> "paste"
                   [] getInputBehavior(fillText, rand) = "type-some-paste-rest" -> "split"
                   [] OTHER -> "clear"
    /\ UNCHANGED <<fillText, field, metaSelectsAll, typeCount>>
    /\ UNCHANGED <<retryVars, breakerVars, timeoutVars, fuzzyVars,
                   typeaheadVars, typingVars, inputVars, mouseVars, randomVars, chipVars>>

\* humanPaste(page, selector, text): click, triple click, el.fill(text)
humanPaste ==
    /\ fillpc = "paste"
    /\ field' = fillText
    /\ fillpc' = IF fillBehavior = "paste" THEN "done" ELSE "edit"
    /\ UNCHANGED <<fillText, metaSelectsAll, fillBehavior, typeCount>>
    /\ UNCHANGED <<retryVars, breakerVars, timeoutVars, fuzzyVars,
                   typeaheadVars, typingVars, inputVars, mouseVars, randomVars, chipVars>>

\* case 'paste-then-edit': press End, Backspace and text[text.length - 1]
pasteThenEdit ==
    /\ fillpc = "edit"
    /\ field' = Append(SubSeq(field, 1, Len(field) - 1), fillText[Len(fillText)])
    /\ fillpc' = "done"
    /\ UNCHANGED <<fillText, metaSelectsAll, fillBehavior, typeCount>>
    /\ UNCHANGED <<retryVars, breakerVars, timeoutVars, fuzzyVars,
                   typeaheadVars, typingVars, inputVars, mouseVars, randomVars, chipVars>>

\* case 'type-some-paste-rest', up to the call humanType(el, typeText); r is
\* the Math.random() that randomInt(2, 4) draws
typeSome(r) ==
    /\ fillpc = "split"
    /\ LET fillWords == splitSpace(fillText)
           typeCountNow == Min(randomInt(Number(2), Number(4), r), Len(fillWords) - 1)
           typeText == join(slice(fillWords, 0, typeCountNow)) \o <<" ">>
       IN  /\ typeCount' = typeCountNow
           /\ content' = typeText
    /\ wordIdx' = 0
    /\ charIdx' = 0
    /\ pressed' = <<>>
    /\ hpc' = "focus"
    /\ fillpc' = "typing"
    /\ UNCHANGED <<fillText, field, metaSelectsAll, fillBehavior, charPause>>
    /\ UNCHANGED <<retryVars, breakerVars, timeoutVars, fuzzyVars,
                   typeaheadVars, inputVars, mouseVars, randomVars, chipVars>>

\* humanType(el, typeText) has returned: Meta+A, then el.fill(text)
pasteRest ==
    /\ fillpc = "typing"
    /\ fillBehavior = "type-some-paste-rest"
    /\ hpc = "done"
    /\ field' = fillText
    /\ fillpc' = "done"
    /\ UNCHANGED <<fillText, metaSelectsAll, fillBehavior, typeCount>>
    /\ UNCHANGED <<retryVars, breakerVars, timeoutVars, fuzzyVars,
                   typeaheadVars, typingVars, inputVars, mouseVars, randomVars, chipVars>>

\* case 'type' and default: click, Meta+A, Backspace, up to the call
\* humanType(el, text)
selectAllDelete ==
    /\ fillpc = "clear"
    /\ field' = IF metaSelectsAll THEN <<>> ELSE SubSeq(field, 1, Len(field) - 1)
    /\ content' = fillText
    /\ wordIdx' = 0
    /\ charIdx' = 0
    /\ pressed' = <<>>
    /\ hpc' = "focus"
    /\ fillpc' = "typing"
    /\ UNCHANGED <<fillText, metaSelectsAll, fillBehavior, typeCount, charPause>>
    /\ UNCHANGED <<retryVars, breakerVars, timeoutVars, fuzzyVars,
                   typeaheadVars, inputVars, mouseVars, randomVars, chipVars>>

\* humanType(el, text) has returned, and humanFill with it
typed ==
    /\ fillpc = "typing"
    /\ fillBehavior = "type"
    /\ hpc = "done"
    /\ field' = applyKeys(field, pressed, 1, Len(pressed))
    /\ fillpc' = "done"
    /\ UNCHANGED <<fillText, metaSelectsAll, fillBehavior, typeCount>>
    /\ UNCHANGED <<retryVars, breakerVars, timeoutVars, fuzzyVars,
                   typeaheadVars, typingVars, inputVars, mouseVars, randomVars, chipVars>>

\* a typo of the humanType call inside humanFill, while fewer than MaxTypos
\* were made
fillTypo(r) ==
    /\ Cardinality({k \in DOMAIN pressed : pressed[k].kind = "typo"}) < MaxTypos
    /\ pressTypo(r)

(***************************************************************************)
(* RetryPredicates.onTimeout as the retryOn of retryWithTimeout.  The      *)
(* predicate looks into the text of the message, so a message is given its *)
(* characters.  fn may reject with an error that names a timeout itself.   *)
(***************************************************************************)
TimeoutExceeded == "timeout exceeded"

\* the characters of the messages
MessageText ==
    [m \in Msgs \cup {DefaultErrorMessage, TimeoutExceeded} |->
        CASE m = DefaultErrorMessage -> <<"O", "p", "e", "r", "a", "t", "i", "o", "n", " ", "t", "i", "m", "e", "d", " ", "o", "u", "t">>
          [] m = TimeoutExceeded -> <<"t", "i", "m", "e", "o", "u", "t", " ", "e", "x", "c", "e", "e", "d", "e", "d">>
          [] m = "fail1" -> <<"f", "a", "i", "l", "1">>
          [] OTHER -> <<"f", "a", "i", "l", "2">>]

\* error.message.includes('timeout') || error.message.includes('Timeout')
onTimeout(error) ==
    \/ includes(MessageText[error.msg], <<"t", "i", "m", "e", "o", "u", "t">>)
    \/ includes(MessageText[error.msg], <<"T", "i", "m", "e", "o", "u", "t">>)

\* what fn may reject with under retryWithTimeout
TimeoutThrown == OpThrown \cup {[kind |-> "Error", msg |-> TimeoutExceeded, fresh |-> FALSE]}

(***************************************************************************)
(* GlobexPlatform.selectSkillChips and the skill mapping.  A chip is named *)
(* by its data-skill value; a click on a chip toggles its class `selected`.*)
(* The page changes only through these clicks.                             *)
(***************************************************************************)
MaxSkills == 2

\* MAPPINGS.globex.skills
MAPPINGS ==
    [globex |-> [skills |->
        [javascript |-> "js", typescript |-> "ts", python |-> "py", react |-> "react",
         nodejs |-> "node", sql |-> "sql", git |-> "git", docker |-> "docker",
         aws |-> "aws", graphql |-> "graphql"]]]

\* return mapping[value] ?? value
mapValue(platform, mappingField, v) ==
    LET mapping == MAPPINGS[platform][mappingField]
    IN  IF v \in DOMAIN mapping THEN mapping[v] ELSE v

\* values.map(v => mapValue(platform, field, v))
mapValues(platform, mappingField, values) ==
    [k \in 1..Len(values) |-> mapValue(platform, mappingField, values[k])]

\* the skills of a profile: mapped names, a name that is already a chip
\* value, and one that has no chip
SkillNames == {"javascript", "js", "react", "rust"}

SkillLists == UNION {[1..k -> SkillNames] : k \in 0..MaxSkills}

\* the chips a page may show
PageChips == {"js", "react"}

\* const mappedSkills = globexMapper.skills(skills); const chipsToClick = []
selectSkillChips ==
    /\ cpc = "map"
    /\ mappedSkills' = mapValues("globex", "skills", skills)
    /\ chipsToClick' = <<>>
    /\ chipIdx' = 0
    /\ cpc' = "identify"
    /\ UNCHANGED <<skills, chips, selected, wasSelected>>
    /\ UNCHANGED <<retryVars, breakerVars, timeoutVars, fuzzyVars,
                   typeaheadVars, typingVars, inputVars, mouseVars, randomVars, fillVars>>

\* first pass, one turn: if (await chip.count() > 0) chipsToClick.push(chipValue)
\* for the locator .chip[data-skill="..."]:not(.selected)
identifyChip ==
    /\ cpc = "identify"
    /\ chipIdx < Len(mappedSkills)
    /\ LET chipValue == mappedSkills[chipIdx + 1]
       IN  chipsToClick' = IF chipValue \in chips \ selected
                           THEN Append(chipsToClick, chipValue)
                           ELSE chipsToClick
    /\ chipIdx' = chipIdx + 1
    /\ UNCHANGED <<skills, chips, selected, wasSelected, mappedSkills, cpc>>
    /\ UNCHANGED <<retryVars, breakerVars, timeoutVars, fuzzyVars,
                   typeaheadVars, typingVars, inputVars, mouseVars, randomVars, fillVars>>

\* the first loop ends, the second starts
identified ==
    /\ cpc = "identify"
    /\ chipIdx = Len(mappedSkills)
    /\ chipIdx' = 0
    /\ cpc' = "click"
    /\ UNCHANGED <<skills, chips, selected, wasSelected, mappedSkills, chipsToClick>>
    /\ UNCHANGED <<retryVars, breakerVars, timeoutVars, fuzzyVars,
                   typeaheadVars, typingVars, inputVars, mouseVars, randomVars, fillVars>>

\* second pass, one turn: await page.locator(`... .chip[data-skill=".."]`).click()
clickChip ==
    /\ cpc = "click"
    /\ chipIdx < Len(chipsToClick)
    /\ LET chipValue == chipsToClick[chipIdx + 1]
       IN  selected' = IF chipValue \in selected THEN selected \ {chipValue}
                       ELSE selected \cup {chipValue}
    /\ chipIdx' = chipIdx + 1
    /\ UNCHANGED <<skills, chips, wasSelected, mappedSkills, chipsToClick, cpc>>
    /\ UNCHANGED <<retryVars, breakerVars, timeoutVars, fuzzyVars,
                   typeaheadVars, typingVars, inputVars, mouseVars, randomVars, fillVars>>

\* the second loop ends and selectSkillChips returns
clicked ==
    /\ cpc = "click"
    /\ chipIdx = Len(chipsToClick)
    /\ cpc' = "done"
    /\ UNCHANGED <<skills, chips, selected, wasSelected, mappedSkills, chipsToClick,
                   chipIdx>>
    /\ UNCHANGED <<retryVars, breakerVars, timeoutVars, fuzzyVars,
                   typeaheadVars, typingVars, inputVars, mouseVars, randomVars, fillVars>>

(***************************************************************************)
(* Specifications.                                                         *)
(***************************************************************************)
\* One retry() call with any options; the breaker is a default-constructed
\* instance that nothing calls.
RetryInit ==
    /\ opts \in RetryOptionsSet
    /\ rpc = "loop"
    /\ attempt = 1
    /\ lastError = NoError
    /\ fnCalls = 0
    /\ outcomes = <<>>
    /\ onRetryLog = <<>>
    /\ waits = <<>>
    /\ waitMs = <<>>
    /\ events = <<>>
    /\ settled = Pending
    /\ cbOptions = [failureThreshold |-> DefaultFailureThreshold,
                    recoveryTimeout  |-> DefaultRecoveryTimeout,
                    halfOpenRequests |-> DefaultHalfOpenRequests]
    /\ state = "closed"
    /\ failures = 0
    /\ successes = 0
    /\ lastFailureTime = 0
    /\ now = 0
    /\ call = [c \in Callers |-> Idle]
    /\ probeOk = 0
    /\ probeFailedAt = -1
    /\ callError = [c \in Callers |-> NoError]
    /\ consec = 0
    /\ admitted = [c \in Callers |-> "none"]
    /\ invoked = [c \in Callers |-> 0]
    /\ fnError = [c \in Callers |-> NoError]
    /\ op = [k \in 1..MaxCalls |-> NotCalled]
    /\ timer = [k \in 1..MaxCalls |-> "unset"]
    /\ race = [k \in 1..MaxCalls |-> NotCalled]
    /\ errorMessage = [k \in 1..MaxCalls |-> DefaultErrorMessage]
    /\ first = [k \in 1..MaxCalls |-> "none"]
    /\ needle = <<>>
    /\ haystack = <<>>
    /\ fscore = NoScore
    /\ fpc = "idle"
    /\ EngineIdle

NextRetry ==
    \/ retryInvoke
    \/ retryExhausted
    \/ \E v \in Values : retryReturn(v)
    \/ \E e \in Thrown : retryCatch(e)
    \/ retryDelayElapsed

SpecRetry == RetryInit /\ [][NextRetry]_vars

\* One breaker constructed with any options (the fields' initialisers and the
\* constructor); no retry() call is running.
BreakerInit ==
    /\ cbOptions \in CircuitBreakerOptionsSet
    /\ state = "closed"
    /\ failures = 0
    /\ successes = 0
    /\ lastFailureTime = 0
    /\ now = 0
    /\ call = [c \in Callers |-> Idle]
    /\ probeOk = 0
    /\ probeFailedAt = -1
    /\ callError = [c \in Callers |-> NoError]
    /\ consec = 0
    /\ admitted = [c \in Callers |-> "none"]
    /\ invoked = [c \in Callers |-> 0]
    /\ fnError = [c \in Callers |-> NoError]
    /\ opts = [maxAttempts |-> 0, hasRetryOn |-> FALSE,
               retryOn |-> [m \in Msgs |-> TRUE], hasOnRetry |-> FALSE]
    /\ rpc = "idle"
    /\ attempt = 1
    /\ lastError = NoError
    /\ fnCalls = 0
    /\ outcomes = <<>>
    /\ onRetryLog = <<>>
    /\ waits = <<>>
    /\ waitMs = <<>>
    /\ events = <<>>
    /\ settled = Pending
    /\ op = [k \in 1..MaxCalls |-> NotCalled]
    /\ timer = [k \in 1..MaxCalls |-> "unset"]
    /\ race = [k \in 1..MaxCalls |-> NotCalled]
    /\ errorMessage = [k \in 1..MaxCalls |-> DefaultErrorMessage]
    /\ first = [k \in 1..MaxCalls |-> "none"]
    /\ needle = <<>>
    /\ haystack = <<>>
    /\ fscore = NoScore
    /\ fpc = "idle"
    /\ EngineIdle

NextBreaker ==
    \/ \E c \in Callers : execute(c)
    \/ \E c \in Callers : executeResolved(c)
    \/ \E c \in Callers : executeRejected(c)
    \/ \E c \in Callers : callerContinues(c)
    \/ reset
    \/ tick

SpecBreaker == BreakerInit /\ [][NextBreaker]_vars

\* The failure threshold the README documents for the breaker.
ReadmeFailureThreshold == 5

\* new CircuitBreaker(): every option takes its default.
DefaultBreakerInit ==
    /\ cbOptions = [failureThreshold |-> DefaultFailureThreshold,
                    recoveryTimeout  |-> DefaultRecoveryTimeout,
                    halfOpenRequests |-> DefaultHalfOpenRequests]
    /\ state = "closed"
    /\ failures = 0
    /\ successes = 0
    /\ lastFailureTime = 0
    /\ now = 0
    /\ call = [c \in Callers |-> Idle]
    /\ probeOk = 0
    /\ probeFailedAt = -1
    /\ callError = [c \in Callers |-> NoError]
    /\ consec = 0
    /\ admitted = [c \in Callers |-> "none"]
    /\ invoked = [c \in Callers |-> 0]
    /\ fnError = [c \in Callers |-> NoError]
    /\ opts = [maxAttempts |-> 0, hasRetryOn |-> FALSE,
               retryOn |-> [m \in Msgs |-> TRUE], hasOnRetry |-> FALSE]
    /\ rpc = "idle"
    /\ attempt = 1
    /\ lastError = NoError
    /\ fnCalls = 0
    /\ outcomes = <<>>
    /\ onRetryLog = <<>>
    /\ waits = <<>>
    /\ waitMs = <<>>
    /\ events = <<>>
    /\ settled = Pending
    /\ op = [k \in 1..MaxCalls |-> NotCalled]
    /\ timer = [k \in 1..MaxCalls |-> "unset"]
    /\ race = [k \in 1..MaxCalls |-> NotCalled]
    /\ errorMessage = [k \in 1..MaxCalls |-> DefaultErrorMessage]
    /\ first = [k \in 1..MaxCalls |-> "none"]
    /\ needle = <<>>
    /\ haystack = <<>>
    /\ fscore = NoScore
    /\ fpc = "idle"
    /\ EngineIdle

SpecDefaultBreaker == DefaultBreakerInit /\ [][NextBreaker]_vars

\* MaxCalls withTimeout() calls not yet made; no retry() call is running and
\* nothing calls the breaker.
TimeoutInit ==
    /\ op = [k \in 1..MaxCalls |-> NotCalled]
    /\ timer = [k \in 1..MaxCalls |-> "unset"]
    /\ race = [k \in 1..MaxCalls |-> NotCalled]
    /\ errorMessage = [k \in 1..MaxCalls |-> DefaultErrorMessage]
    /\ first = [k \in 1..MaxCalls |-> "none"]
    /\ needle = <<>>
    /\ haystack = <<>>
    /\ fscore = NoScore
    /\ fpc = "idle"
    /\ opts = [maxAttempts |-> 0, hasRetryOn |-> FALSE,
               retryOn |-> [m \in Msgs |-> TRUE], hasOnRetry |-> FALSE]
    /\ rpc = "idle"
    /\ attempt = 1
    /\ lastError = NoError
    /\ fnCalls = 0
    /\ outcomes = <<>>
    /\ onRetryLog = <<>>
    /\ waits = <<>>
    /\ waitMs = <<>>
    /\ events = <<>>
    /\ settled = Pending
    /\ cbOptions = [failureThreshold |-> DefaultFailureThreshold,
                    recoveryTimeout  |-> DefaultRecoveryTimeout,
                    halfOpenRequests |-> DefaultHalfOpenRequests]
    /\ state = "closed"
    /\ failures = 0
    /\ successes = 0
    /\ lastFailureTime = 0
    /\ now = 0
    /\ call = [c \in Callers |-> Idle]
    /\ probeOk = 0
    /\ probeFailedAt = -1
    /\ callError = [c \in Callers |-> NoError]
    /\ consec = 0
    /\ admitted = [c \in Callers |-> "none"]
    /\ invoked = [c \in Callers |-> 0]
    /\ fnError = [c \in Callers |-> NoError]
    /\ EngineIdle

NextTimeout ==
    \/ \E k \in DOMAIN op, msg \in ErrorMessages : withTimeoutCall(k, msg)
    \/ \E k \in DOMAIN op, v \in Values : fnResolves(k, v)
    \/ \E k \in DOMAIN op, e \in OpThrown : fnRejects(k, e)
    \/ \E k \in DOMAIN op : timerFires(k)

SpecTimeout == TimeoutInit /\ [][NextTimeout]_vars

\* One retryWithTimeout(fn, timeoutMs, options) call: retry's own backoff
\* without jitter and without callbacks, any maxAttempts; one withTimeout
\* call per attempt.
RetryTimeoutInit ==
    /\ opts \in {o \in RetryOptionsSet :
                    /\ ~o.hasRetryOn /\ ~o.hasOnRetry
                    /\ \A m \in Msgs : o.retryOn[m]
                    /\ o.baseDelay = RETRY_PROFILES.quick.baseDelay}
    /\ rpc = "loop"
    /\ attempt = 1
    /\ lastError = NoError
    /\ fnCalls = 0
    /\ outcomes = <<>>
    /\ onRetryLog = <<>>
    /\ waits = <<>>
    /\ waitMs = <<>>
    /\ events = <<>>
    /\ settled = Pending
    /\ op = [k \in 1..MaxAttempts |-> NotCalled]
    /\ timer = [k \in 1..MaxAttempts |-> "unset"]
    /\ race = [k \in 1..MaxAttempts |-> NotCalled]
    /\ errorMessage = [k \in 1..MaxAttempts |-> DefaultErrorMessage]
    /\ first = [k \in 1..MaxAttempts |-> "none"]
    /\ needle = <<>>
    /\ haystack = <<>>
    /\ fscore = NoScore
    /\ fpc = "idle"
    /\ cbOptions = [failureThreshold |-> DefaultFailureThreshold,
                    recoveryTimeout  |-> DefaultRecoveryTimeout,
                    halfOpenRequests |-> DefaultHalfOpenRequests]
    /\ state = "closed"
    /\ failures = 0
    /\ successes = 0
    /\ lastFailureTime = 0
    /\ now = 0
    /\ call = [c \in Callers |-> Idle]
    /\ probeOk = 0
    /\ probeFailedAt = -1
    /\ callError = [c \in Callers |-> NoError]
    /\ consec = 0
    /\ admitted = [c \in Callers |-> "none"]
    /\ invoked = [c \in Callers |-> 0]
    /\ fnError = [c \in Callers |-> NoError]
    /\ EngineIdle

NextRetryTimeout ==
    \/ retryWithTimeoutInvoke
    \/ retryExhausted
    \/ \E v \in Values : raceFulfilled(v)
    \/ \E e \in OpThrown \cup {TimeoutError(DefaultErrorMessage)} : raceRejected(e)
    \/ retryDelayElapsed
    \/ \E k \in DOMAIN op, v \in Values : fnResolves(k, v)
    \/ \E k \in DOMAIN op, e \in OpThrown : fnRejects(k, e)
    \/ \E k \in DOMAIN op : timerFires(k)

SpecRetryTimeout == RetryTimeoutInit /\ [][NextRetryTimeout]_vars

\* One fuzzyScore call about to be made on any two short strings; nothing
\* else is running.
FuzzyInit ==
    /\ needle \in StringsUpTo(MaxNeedle)
    /\ haystack \in StringsUpTo(MaxHaystack)
    /\ fscore = NoScore
    /\ fpc = "call"
    /\ opts = [maxAttempts |-> 0, hasRetryOn |-> FALSE,
               retryOn |-> [m \in Msgs |-> TRUE], hasOnRetry |-> FALSE]
    /\ rpc = "idle"
    /\ attempt = 1
    /\ lastError = NoError
    /\ fnCalls = 0
    /\ outcomes = <<>>
    /\ onRetryLog = <<>>
    /\ waits = <<>>
    /\ waitMs = <<>>
    /\ events = <<>>
    /\ settled = Pending
    /\ cbOptions = [failureThreshold |-> DefaultFailureThreshold,
                    recoveryTimeout  |-> DefaultRecoveryTimeout,
                    halfOpenRequests |-> DefaultHalfOpenRequests]
    /\ state = "closed"
    /\ failures = 0
    /\ successes = 0
    /\ lastFailureTime = 0
    /\ now = 0
    /\ call = [c \in Callers |-> Idle]
    /\ probeOk = 0
    /\ probeFailedAt = -1
    /\ callError = [c \in Callers |-> NoError]
    /\ consec = 0
    /\ admitted = [c \in Callers |-> "none"]
    /\ invoked = [c \in Callers |-> 0]
    /\ fnError = [c \in Callers |-> NoError]
    /\ op = [k \in 1..MaxCalls |-> NotCalled]
    /\ timer = [k \in 1..MaxCalls |-> "unset"]
    /\ race = [k \in 1..MaxCalls |-> NotCalled]
    /\ errorMessage = [k \in 1..MaxCalls |-> DefaultErrorMessage]
    /\ first = [k \in 1..MaxCalls |-> "none"]
    /\ EngineIdle

NextFuzzy == fuzzyScoreCall

SpecFuzzy == FuzzyInit /\ [][NextFuzzy]_vars

\* The results container of a typeahead has opened on any list of result
\* texts, for any desired value; nothing else is running.
TypeaheadInit ==
    /\ value \in Texts
    /\ results \in ResultLists
    /\ count = 0
    /\ idx = 0
    /\ bestIndex = 0
    /\ bestScore = NoScore
    /\ clicks = <<>>
    /\ tpc = "count"
    /\ needle = <<>>
    /\ haystack = <<>>
    /\ fscore = NoScore
    /\ fpc = "idle"
    /\ opts = [maxAttempts |-> 0, hasRetryOn |-> FALSE,
               retryOn |-> [m \in Msgs |-> TRUE], hasOnRetry |-> FALSE]
    /\ rpc = "idle"
    /\ attempt = 1
    /\ lastError = NoError
    /\ fnCalls = 0
    /\ outcomes = <<>>
    /\ onRetryLog = <<>>
    /\ waits = <<>>
    /\ waitMs = <<>>
    /\ events = <<>>
    /\ settled = Pending
    /\ cbOptions = [failureThreshold |-> DefaultFailureThreshold,
                    recoveryTimeout  |-> DefaultRecoveryTimeout,
                    halfOpenRequests |-> DefaultHalfOpenRequests]
    /\ state = "closed"
    /\ failures = 0
    /\ successes = 0
    /\ lastFailureTime = 0
    /\ now = 0
    /\ call = [c \in Callers |-> Idle]
    /\ probeOk = 0
    /\ probeFailedAt = -1
    /\ callError = [c \in Callers |-> NoError]
    /\ consec = 0
    /\ admitted = [c \in Callers |-> "none"]
    /\ invoked = [c \in Callers |-> 0]
    /\ fnError = [c \in Callers |-> NoError]
    /\ op = [k \in 1..MaxCalls |-> NotCalled]
    /\ timer = [k \in 1..MaxCalls |-> "unset"]
    /\ race = [k \in 1..MaxCalls |-> NotCalled]
    /\ errorMessage = [k \in 1..MaxCalls |-> DefaultErrorMessage]
    /\ first = [k \in 1..MaxCalls |-> "none"]
    /\ TypingIdle
    /\ InputIdle
    /\ PageIdle

NextTypeahead ==
    \/ resultsCount
    \/ scoreResult
    \/ clickBest

SpecTypeahead == TypeaheadInit /\ [][NextTypeahead]_vars

\* One humanType call about to focus its element, for any short text; nothing
\* else is running.
TypingInit ==
    /\ content \in Contents
    /\ wordIdx = 0
    /\ charIdx = 0
    /\ pressed = <<>>
    /\ charPause = -1
    /\ hpc = "focus"
    /\ TypeaheadIdle
    /\ needle = <<>>
    /\ haystack = <<>>
    /\ fscore = NoScore
    /\ fpc = "idle"
    /\ opts = [maxAttempts |-> 0, hasRetryOn |-> FALSE,
               retryOn |-> [m \in Msgs |-> TRUE], hasOnRetry |-> FALSE]
    /\ rpc = "idle"
    /\ attempt = 1
    /\ lastError = NoError
    /\ fnCalls = 0
    /\ outcomes = <<>>
    /\ onRetryLog = <<>>
    /\ waits = <<>>
    /\ waitMs = <<>>
    /\ events = <<>>
    /\ settled = Pending
    /\ cbOptions = [failureThreshold |-> DefaultFailureThreshold,
                    recoveryTimeout  |-> DefaultRecoveryTimeout,
                    halfOpenRequests |-> DefaultHalfOpenRequests]
    /\ state = "closed"
    /\ failures = 0
    /\ successes = 0
    /\ lastFailureTime = 0
    /\ now = 0
    /\ call = [c \in Callers |-> Idle]
    /\ probeOk = 0
    /\ probeFailedAt = -1
    /\ callError = [c \in Callers |-> NoError]
    /\ consec = 0
    /\ admitted = [c \in Callers |-> "none"]
    /\ invoked = [c \in Callers |-> 0]
    /\ fnError = [c \in Callers |-> NoError]
    /\ op = [k \in 1..MaxCalls |-> NotCalled]
    /\ timer = [k \in 1..MaxCalls |-> "unset"]
    /\ race = [k \in 1..MaxCalls |-> NotCalled]
    /\ errorMessage = [k \in 1..MaxCalls |-> DefaultErrorMessage]
    /\ first = [k \in 1..MaxCalls |-> "none"]
    /\ InputIdle
    /\ PageIdle

NextTyping ==
    \/ focus
    \/ \E r \in TypoDraws : pressTypo(r)
    \/ pressBackspace
    \/ \E z \in ZSamples : pressChar(z)
    \/ pressSpace

SpecTyping == TypingInit /\ [][NextTyping]_vars

\* getInputBehavior and shouldPaste are about to be called, any number of
\* times, on any of the texts; nothing else is running.
InputInit ==
    /\ inputText \in InputTexts
    /\ behavior = "none"
    /\ pasteAnswer = "none"
    /\ ipc = "ready"
    /\ TypeaheadIdle
    /\ TypingIdle
    /\ PageIdle
    /\ needle = <<>>
    /\ haystack = <<>>
    /\ fscore = NoScore
    /\ fpc = "idle"
    /\ opts = [maxAttempts |-> 0, hasRetryOn |-> FALSE,
               retryOn |-> [m \in Msgs |-> TRUE], hasOnRetry |-> FALSE]
    /\ rpc = "idle"
    /\ attempt = 1
    /\ lastError = NoError
    /\ fnCalls = 0
    /\ outcomes = <<>>
    /\ onRetryLog = <<>>
    /\ waits = <<>>
    /\ waitMs = <<>>
    /\ events = <<>>
    /\ settled = Pending
    /\ cbOptions = [failureThreshold |-> DefaultFailureThreshold,
                    recoveryTimeout  |-> DefaultRecoveryTimeout,
                    halfOpenRequests |-> DefaultHalfOpenRequests]
    /\ state = "closed"
    /\ failures = 0
    /\ successes = 0
    /\ lastFailureTime = 0
    /\ now = 0
    /\ call = [c \in Callers |-> Idle]
    /\ probeOk = 0
    /\ probeFailedAt = -1
    /\ callError = [c \in Callers |-> NoError]
    /\ consec = 0
    /\ admitted = [c \in Callers |-> "none"]
    /\ invoked = [c \in Callers |-> 0]
    /\ fnError = [c \in Callers |-> NoError]
    /\ op = [k \in 1..MaxCalls |-> NotCalled]
    /\ timer = [k \in 1..MaxCalls |-> "unset"]
    /\ race = [k \in 1..MaxCalls |-> NotCalled]
    /\ errorMessage = [k \in 1..MaxCalls |-> DefaultErrorMessage]
    /\ first = [k \in 1..MaxCalls |-> "none"]

NextInput ==
    \/ \E rand \in RandomHundredths : getInputBehaviorCall(rand)
    \/ \E rand \in RandomHundredths : shouldPasteCall(rand)

SpecInput == InputInit /\ [][NextInput]_vars

\* retry(), the circuit breaker, withTimeout() and fuzzyScore() at rest:
\* nothing has called them
CoreIdle ==
    /\ needle = <<>>
    /\ haystack = <<>>
    /\ fscore = NoScore
    /\ fpc = "idle"
    /\ opts = [maxAttempts |-> 0, hasRetryOn |-> FALSE,
               retryOn |-> [m \in Msgs |-> TRUE], hasOnRetry |-> FALSE]
    /\ rpc = "idle"
    /\ attempt = 1
    /\ lastError = NoError
    /\ fnCalls = 0
    /\ outcomes = <<>>
    /\ onRetryLog = <<>>
    /\ waits = <<>>
    /\ waitMs = <<>>
    /\ events = <<>>
    /\ settled = Pending
    /\ cbOptions = [failureThreshold |-> DefaultFailureThreshold,
                    recoveryTimeout  |-> DefaultRecoveryTimeout,
                    halfOpenRequests |-> DefaultHalfOpenRequests]
    /\ state = "closed"
    /\ failures = 0
    /\ successes = 0
    /\ lastFailureTime = 0
    /\ now = 0
    /\ call = [c \in Callers |-> Idle]
    /\ probeOk = 0
    /\ probeFailedAt = -1
    /\ callError = [c \in Callers |-> NoError]
    /\ consec = 0
    /\ admitted = [c \in Callers |-> "none"]
    /\ invoked = [c \in Callers |-> 0]
    /\ fnError = [c \in Callers |-> NoError]
    /\ op = [k \in 1..MaxCalls |-> NotCalled]
    /\ timer = [k \in 1..MaxCalls |-> "unset"]
    /\ race = [k \in 1..MaxCalls |-> NotCalled]
    /\ errorMessage = [k \in 1..MaxCalls |-> DefaultErrorMessage]
    /\ first = [k \in 1..MaxCalls |-> "none"]

\* One humanMouseMove(page, toX, toY) call: any viewport, target and step
\* count; the control points are drawn when the call starts.
MouseInit ==
    /\ \E viewport \in Viewports :
           currentPos = [x |-> viewport.width \div 2, y |-> viewport.height \div 2]
    /\ targetPos \in Targets
    /\ steps \in StepCounts
    /\ bezierPoints = <<>>
    /\ stepIdx = 0
    /\ moves = <<>>
    /\ mpc = "generate"
    /\ RandomIdle
    /\ FillIdle
    /\ ChipsIdle
    /\ TypeaheadIdle
    /\ TypingIdle
    /\ InputIdle
    /\ CoreIdle

NextMouse ==
    \/ \E q1, q2 \in RandomQuarters : humanMouseMove(q1, q2)
    \/ mouseMove

SpecMouse == MouseInit /\ [][NextMouse]_vars

\* randomBetween(min, max) and randomInt(min, max) called any number of
\* times on whole numbers min <= max.
RandomInit ==
    /\ rndMin \in 0..MaxRange
    /\ rndMax \in rndMin..MaxRange
    /\ rndBetween = -1
    /\ rndInt = -1
    /\ MouseIdle
    /\ FillIdle
    /\ ChipsIdle
    /\ TypeaheadIdle
    /\ TypingIdle
    /\ InputIdle
    /\ CoreIdle

NextRandom ==
    \/ \E r \in RandomUnits : randomBetweenCall(r)
    \/ \E r \in RandomUnits : randomIntCall(r)

SpecRandom == RandomInit /\ [][NextRandom]_vars

\* One retry() call around breaker.execute(fn) on a fresh breaker, without
\* retry predicate or onRetry callback, while the clock runs.
RetryBreakerInit ==
    /\ opts \in {o \in RetryOptionsSet :
                    /\ ~o.hasRetryOn /\ ~o.hasOnRetry
                    /\ \A m \in Msgs : o.retryOn[m]
                    /\ o.baseDelay = RETRY_PROFILES.quick.baseDelay}
    /\ rpc = "loop"
    /\ attempt = 1
    /\ lastError = NoError
    /\ fnCalls = 0
    /\ outcomes = <<>>
    /\ onRetryLog = <<>>
    /\ waits = <<>>
    /\ waitMs = <<>>
    /\ events = <<>>
    /\ settled = Pending
    /\ cbOptions \in CircuitBreakerOptionsSet
    /\ state = "closed"
    /\ failures = 0
    /\ successes = 0
    /\ lastFailureTime = 0
    /\ now = 0
    /\ call = [c \in Callers |-> Idle]
    /\ probeOk = 0
    /\ probeFailedAt = -1
    /\ callError = [c \in Callers |-> NoError]
    /\ consec = 0
    /\ admitted = [c \in Callers |-> "none"]
    /\ invoked = [c \in Callers |-> 0]
    /\ fnError = [c \in Callers |-> NoError]
    /\ op = [k \in 1..MaxCalls |-> NotCalled]
    /\ timer = [k \in 1..MaxCalls |-> "unset"]
    /\ race = [k \in 1..MaxCalls |-> NotCalled]
    /\ errorMessage = [k \in 1..MaxCalls |-> DefaultErrorMessage]
    /\ first = [k \in 1..MaxCalls |-> "none"]
    /\ needle = <<>>
    /\ haystack = <<>>
    /\ fscore = NoScore
    /\ fpc = "idle"
    /\ EngineIdle

NextRetryBreaker ==
    \/ retryBreakerInvoke
    \/ retryBreakerExecute
    \/ retryBreakerFnResolved
    \/ retryBreakerFnRejected
    \/ \E v \in Values : retryBreakerReturn(v)
    \/ retryBreakerCatch
    \/ retryBreakerContinues
    \/ retryDelayElapsed
    \/ retryExhausted
    \/ tick

SpecRetryBreaker == RetryBreakerInit /\ [][NextRetryBreaker]_vars

\* One humanFill(page, selector, text) call on a field with any content, in
\* a browser on macOS or elsewhere.
FillInit ==
    /\ fillText \in FillTexts
    /\ field \in FieldContents
    /\ metaSelectsAll \in BOOLEAN
    /\ fillBehavior = "none"
    /\ typeCount = -1
    /\ fillpc = "start"
    /\ MouseIdle
    /\ RandomIdle
    /\ ChipsIdle
    /\ TypeaheadIdle
    /\ TypingIdle
    /\ InputIdle
    /\ CoreIdle

NextFill ==
    \/ \E rand \in FillDraws : humanFill(rand)
    \/ humanPaste
    \/ pasteThenEdit
    \/ \E r \in RandomUnits : typeSome(r)
    \/ pasteRest
    \/ selectAllDelete
    \/ typed
    \/ focus
    \/ \E r \in TypoDraws : fillTypo(r)
    \/ pressBackspace
    \/ \E z \in ZSamples : pressChar(z)
    \/ pressSpace

SpecFill == FillInit /\ [][NextFill]_vars

\* One retryWithTimeout(fn, t, {retryOn: RetryPredicates.onTimeout}) call.
RetryOnTimeoutInit ==
    /\ opts \in {[o EXCEPT !.hasRetryOn = TRUE,
                           !.retryOn = [m \in DOMAIN MessageText |->
                                           onTimeout([msg |-> m])]] :
                    o \in {q \in RetryOptionsSet :
                              /\ ~q.hasRetryOn /\ ~q.hasOnRetry
                              /\ \A m \in Msgs : q.retryOn[m]
                              /\ q.baseDelay = RETRY_PROFILES.quick.baseDelay}}
    /\ rpc = "loop"
    /\ attempt = 1
    /\ lastError = NoError
    /\ fnCalls = 0
    /\ outcomes = <<>>
    /\ onRetryLog = <<>>
    /\ waits = <<>>
    /\ waitMs = <<>>
    /\ events = <<>>
    /\ settled = Pending
    /\ op = [k \in 1..MaxAttempts |-> NotCalled]
    /\ timer = [k \in 1..MaxAttempts |-> "unset"]
    /\ race = [k \in 1..MaxAttempts |-> NotCalled]
    /\ errorMessage = [k \in 1..MaxAttempts |-> DefaultErrorMessage]
    /\ first = [k \in 1..MaxAttempts |-> "none"]
    /\ needle = <<>>
    /\ haystack = <<>>
    /\ fscore = NoScore
    /\ fpc = "idle"
    /\ cbOptions = [failureThreshold |-> DefaultFailureThreshold,
                    recoveryTimeout  |-> DefaultRecoveryTimeout,
                    halfOpenRequests |-> DefaultHalfOpenRequests]
    /\ state = "closed"
    /\ failures = 0
    /\ successes = 0
    /\ lastFailureTime = 0
    /\ now = 0
    /\ call = [c \in Callers |-> Idle]
    /\ probeOk = 0
    /\ probeFailedAt = -1
    /\ callError = [c \in Callers |-> NoError]
    /\ consec = 0
    /\ admitted = [c \in Callers |-> "none"]
    /\ invoked = [c \in Callers |-> 0]
    /\ fnError = [c \in Callers |-> NoError]
    /\ EngineIdle

NextRetryOnTimeout ==
    \/ retryWithTimeoutInvoke
    \/ retryExhausted
    \/ \E v \in Values : raceFulfilled(v)
    \/ \E e \in TimeoutThrown \cup {TimeoutError(DefaultErrorMessage)} : raceRejected(e)
    \/ retryDelayElapsed
    \/ \E k \in DOMAIN op, v \in Values : fnResolves(k, v)
    \/ \E k \in DOMAIN op, e \in TimeoutThrown : fnRejects(k, e)
    \/ \E k \in DOMAIN op : timerFires(k)

SpecRetryOnTimeout == RetryOnTimeoutInit /\ [][NextRetryOnTimeout]_vars

\* One selectSkillChips(page, skills) call on a page showing any of the chips,
\* any of them selected already.
ChipsInit ==
    /\ skills \in SkillLists
    /\ chips \in SUBSET PageChips
    /\ selected \in SUBSET chips
    /\ wasSelected = selected
    /\ mappedSkills = <<>>
    /\ chipsToClick = <<>>
    /\ chipIdx = 0
    /\ cpc = "map"
    /\ MouseIdle
    /\ RandomIdle
    /\ FillIdle
    /\ TypeaheadIdle
    /\ TypingIdle
    /\ InputIdle
    /\ CoreIdle

NextChips ==
    \/ selectSkillChips
    \/ identifyChip
    \/ identified
    \/ clickChip
    \/ clicked

SpecChips == ChipsInit /\ [][NextChips]_vars

(***************************************************************************)
(* Claims about retry(), checked under SpecRetry.                          *)
(***************************************************************************)
NumOutcomes == Len(outcomes)

\* the error of settlement o passes the configured predicate, or none is set
Accepted(o) == ~opts.hasRetryOn \/ opts.retryOn[o.thrown.msg]

AllFailedAccepted ==
    \A i \in 1..NumOutcomes : ~outcomes[i].ok /\ Accepted(outcomes[i])

\* C1: when fn fails k times (k < maxAttempts, every error accepted) and then
\* succeeds, retry returns that success value, fn has been invoked exactly
\* k+1 times and is not invoked again; and after k < maxAttempts accepted
\* failures retry has not given up.
C1_SuccessAfterFailures ==
    /\ (NumOutcomes > 0 /\ outcomes[NumOutcomes].ok) =>
          /\ \A i \in 1..(NumOutcomes - 1) : ~outcomes[i].ok
          /\ rpc = "done"
          /\ settled = Fulfilled(outcomes[NumOutcomes].val)
          /\ fnCalls = NumOutcomes
          /\ NumOutcomes <= opts.maxAttempts
    /\ (AllFailedAccepted /\ NumOutcomes < opts.maxAttempts) => settled = Pending

\* C1 witness: two failures, then a success that retry returned.
C1_Witness ==
    /\ NumOutcomes = 3
    /\ ~outcomes[1].ok /\ ~outcomes[2].ok /\ outcomes[3].ok
    /\ settled = Fulfilled("ok2")
    /\ fnCalls = 3

\* C2: with maxAttempts >= 1 and fn failing on every attempt with accepted
\* errors, fn is invoked exactly maxAttempts times, a backoff wait follows
\* each attempt but the last (maxAttempts-1 waits), and retry then throws the
\* error of the final attempt.
C2_ExhaustionCounts ==
    (opts.maxAttempts >= 1 /\ AllFailedAccepted) =>
        /\ NumOutcomes <= opts.maxAttempts
        /\ settled.kind = "rejected" => NumOutcomes = opts.maxAttempts
        /\ NumOutcomes = opts.maxAttempts =>
              /\ rpc = "done"
              /\ settled.kind = "rejected"
              /\ settled.error.msg = outcomes[NumOutcomes].thrown.msg
              /\ fnCalls = opts.maxAttempts
              /\ waits = [i \in 1..(opts.maxAttempts - 1) |-> i]

\* C2 witness: three failed attempts of three, the last with another error
\* than the first, and retry has thrown.
C2_Witness ==
    /\ opts.maxAttempts = 3
    /\ NumOutcomes = 3
    /\ AllFailedAccepted
    /\ outcomes[1].thrown.msg = "fail1"
    /\ outcomes[3].thrown.msg = "fail2"
    /\ settled.kind = "rejected"
    /\ Len(waits) = 2

\* C3: when the retryOn predicate returns false for the error of an attempt,
\* retry rethrows at once: that attempt is the last invocation of fn, and no
\* onRetry call and no backoff wait is made for it.
C3_PredicateFailFast ==
    \A i \in 1..NumOutcomes :
        (~outcomes[i].ok /\ opts.hasRetryOn /\ ~opts.retryOn[outcomes[i].thrown.msg]) =>
            /\ i = NumOutcomes
            /\ rpc = "done"
            /\ settled.kind = "rejected"
            /\ settled.error.msg = outcomes[i].thrown.msg
            /\ fnCalls = i
            /\ \A j \in 1..Len(onRetryLog) : onRetryLog[j].attempt < i
            /\ \A j \in 1..Len(waits) : waits[j] < i

\* C3 witness: the predicate accepts the first error and refuses the second,
\* with an attempt still left.
C3_Witness ==
    /\ opts.maxAttempts = 3
    /\ opts.hasRetryOn /\ opts.hasOnRetry
    /\ NumOutcomes = 2
    /\ ~outcomes[1].ok /\ opts.retryOn[outcomes[1].thrown.msg]
    /\ ~outcomes[2].ok /\ ~opts.retryOn[outcomes[2].thrown.msg]
    /\ settled.kind = "rejected"
    /\ Len(onRetryLog) = 1

\* C4: whenever retry gives up, the value it throws is the very value thrown
\* by the last invocation of fn, unchanged, also when that value is not an
\* Error object.
C4_RethrowsUnchanged ==
    (settled.kind = "rejected" /\ NumOutcomes > 0) =>
        /\ ~outcomes[NumOutcomes].ok
        /\ settled.error = outcomes[NumOutcomes].thrown

(***************************************************************************)
(* Claims about CircuitBreaker, checked under SpecBreaker.                 *)
(***************************************************************************)
\* caller c's execute() call starts in this step (admitted or rejected)
Calls(c) == call[c].pc = "idle" /\ call'[c].pc # "idle"
\* the wrapped function of caller c settles in this step
Succeeds(c) == call[c].pc = "running" /\ call'[c] = Returned
Fails(c) == call[c].pc = "running" /\ call'[c] = Threw

Elapsed == now - lastFailureTime

\* C5: the breaker leaves Closed for Open exactly on the recorded failure that
\* brings the failure counter to failureThreshold, each failure counting one;
\* in every reachable state Closed implies failures < failureThreshold.
C5_OpensAtThreshold ==
    /\ [](state = "closed" => failures < cbOptions.failureThreshold)
    /\ [][state = "closed" =>
            /\ state' \in {"closed", "open"}
            /\ state' = "open" <=>
                  /\ \E c \in Callers : Fails(c)
                  /\ failures' = cbOptions.failureThreshold
            /\ (\E c \in Callers : Fails(c)) => failures' = failures + 1]_vars

\* C5 witness: the second of two failures opened a breaker of threshold 2
\* that had never been open before (the clock has not moved).
C5_Witness ==
    /\ cbOptions.failureThreshold = 2
    /\ state = "open"
    /\ failures = 2
    /\ now = 0
    /\ \A c \in Callers : call[c].outcome \in {"none", "fnError"}

\* C6: while Open with less than recoveryTimeout elapsed since the last
\* recorded failure, an execute call is rejected with CircuitOpenError, the
\* wrapped function is not invoked, state and counters do not change, and the
\* reported remaining cooldown is recoveryTimeout - elapsed, a positive number.
C6_OpenRejects ==
    [][\A c \in Callers :
        (state = "open" /\ Elapsed < cbOptions.recoveryTimeout /\ Calls(c)) =>
            /\ call'[c] = CircuitOpenError(cbOptions.recoveryTimeout - Elapsed)
            /\ call'[c].remaining > 0
            /\ \A d \in Callers : call'[d].pc = "running" => call[d].pc = "running"
            /\ UNCHANGED <<state, failures, successes, lastFailureTime>>]_vars

\* C6 witness: a call was rejected one tick into a cooldown of two.
C6_Witness ==
    /\ cbOptions.recoveryTimeout = 2
    /\ state = "open"
    /\ Elapsed = 1
    /\ \E c \in Callers : call[c] = CircuitOpenError(1)

\* C7: an execute call made while Open moves the breaker to HalfOpen with the
\* half-open success counter at 0 and invokes the wrapped function when the
\* time since the last recorded failure is >= recoveryTimeout (also when
\* equal); before that time the call is not admitted and the breaker stays
\* Open.
C7_HalfOpenAfterCooldown ==
    [][\A c \in Callers :
        (state = "open" /\ Calls(c)) =>
            IF Elapsed >= cbOptions.recoveryTimeout
            THEN state' = "half-open" /\ successes' = 0 /\ call'[c] = Running
            ELSE state' = "open" /\ call'[c].pc # "running"]_vars

\* C7 witness: the only call in flight was admitted exactly recoveryTimeout
\* after the last recorded failure.
C7_Witness ==
    /\ state = "half-open"
    /\ Elapsed = cbOptions.recoveryTimeout
    /\ successes = 0
    /\ probeOk = 0
    /\ \E c \in Callers : call[c] = Running /\ \A d \in Callers \ {c} : call[d] = Idle

\* C8: a success in HalfOpen closes the breaker exactly when the number of
\* successes since HalfOpen was last entered reaches halfOpenRequests, and
\* leaves it HalfOpen on every earlier success.
C8_ClosesAtHalfOpenRequests ==
    /\ [](state = "half-open" => probeOk < cbOptions.halfOpenRequests)
    /\ [][\A c \in Callers :
            (state = "half-open" /\ Succeeds(c)) =>
                /\ state' \in {"closed", "half-open"}
                /\ state' = "closed" <=> probeOk' = cbOptions.halfOpenRequests]_vars

\* C8 witness: with halfOpenRequests = 2 the second success closed the breaker.
C8_Witness ==
    /\ cbOptions.halfOpenRequests = 2
    /\ state = "closed"
    /\ probeOk = 2
    /\ \E c \in Callers : call[c] = Returned

\* C9: a failure of a call while HalfOpen moves the breaker to Open, whatever
\* failureThreshold is and however many probe successes came before, and
\* stamps the failure time; while the breaker then stays Open, calls are
\* rejected until recoveryTimeout has elapsed since that failed probe.
C9_FailedProbeReopens ==
    /\ [][\A c \in Callers :
            (state = "half-open" /\ Fails(c)) =>
                state' = "open" /\ lastFailureTime' = now]_vars
    /\ [][\A c \in Callers :
            (/\ state = "open" /\ probeFailedAt # -1
             /\ now - probeFailedAt < cbOptions.recoveryTimeout
             /\ Calls(c)) =>
                call'[c].outcome = "CircuitOpenError" /\ state' = "open"]_vars

\* C9 witness: after one probe success a probe failed below the failure
\* threshold, and a later call was rejected during the new cooldown.
C9_Witness ==
    /\ cbOptions.failureThreshold = 2
    /\ state = "open"
    /\ probeOk = 1
    /\ failures = 1
    /\ probeFailedAt # -1
    /\ now > probeFailedAt
    /\ \E c \in Callers : call[c].outcome = "CircuitOpenError"

\* C10 (as stated): immediately after a HalfOpen to Closed transition the
\* consecutive-failure counter and the half-open success counter are both 0.
C10_AllCountersReset ==
    [][(state = "half-open" /\ state' = "closed") =>
            failures' = 0 /\ successes' = 0]_vars

\* C10 (amended): immediately after a HalfOpen to Closed transition the
\* consecutive-failure counter is 0; the half-open success counter is 0 when
\* reset() made the transition and equals halfOpenRequests when a success
\* made it.
C10_CountersAfterClose ==
    [][(state = "half-open" /\ state' = "closed") =>
            /\ failures' = 0
            /\ IF \E c \in Callers : Succeeds(c)
               THEN successes' = cbOptions.halfOpenRequests
               ELSE successes' = 0]_vars

\* C10 witness: closed by the second probe success, the success counter is
\* still 2.
C10_Witness ==
    /\ cbOptions.halfOpenRequests = 2
    /\ state = "closed"
    /\ successes = 2
    /\ failures = 0
    /\ \E c \in Callers : call[c] = Returned

\* C11: a success while Closed sets the failure counter to 0 and leaves the
\* breaker Closed; the breaker leaves Closed for Open only when at least
\* failureThreshold failures have been recorded since the last success.
C11_SuccessResetsCount ==
    /\ [][\A c \in Callers :
            (state = "closed" /\ Succeeds(c)) =>
                failures' = 0 /\ state' = "closed"]_vars
    /\ [][(state = "closed" /\ state' = "open") =>
            consec' >= cbOptions.failureThreshold]_vars

\* C11 witness: with threshold 2 the breaker is Closed and has recorded a
\* failure, a success and another failure.
C11_Witness ==
    /\ cbOptions.failureThreshold = 2
    /\ state = "closed"
    /\ failures = 1
    /\ now = 0
    /\ call["a"] = Returned
    /\ call["b"] = Threw

\* C12: the wrapped-function invocations in flight that were admitted during
\* the current HalfOpen episode never number more than halfOpenRequests.
C12_ProbesLimited ==
    state = "half-open" =>
        Cardinality({c \in Callers : call[c].pc = "running" /\ admitted[c] = "probe"})
            <= cbOptions.halfOpenRequests

\* C13: one execute() call invokes the wrapped function at most once; a call
\* whose function failed is rejected with the very value the function threw;
\* CircuitOpenError is thrown only by a call that did not invoke the function.
C13_ExecutesOnceOrRejects ==
    \A c \in Callers :
        /\ invoked[c] <= 1
        /\ call[c].pc = "running" => invoked[c] = 1
        /\ call[c].outcome = "value" => invoked[c] = 1
        /\ call[c].outcome = "fnError" =>
              /\ invoked[c] = 1
              /\ callError[c] = fnError[c]
              /\ callError[c].kind # "CircuitOpenError"
        /\ call[c].outcome = "CircuitOpenError" =>
              /\ invoked[c] = 0
              /\ callError[c].kind = "CircuitOpenError"
        /\ callError[c].kind = "CircuitOpenError" => invoked[c] = 0

\* C13 witness: one call rethrew the string its function threw while another
\* call was refused.
C13_Witness ==
    /\ call["a"] = Threw
    /\ callError["a"].kind = "string"
    /\ call["b"].outcome = "CircuitOpenError"

\* C14: reset() in any state leaves the breaker Closed with both counters 0;
\* a call made while Closed invokes the wrapped function; and Closed is left
\* for Open only after failureThreshold failures recorded since the reset.
C14_ResetCloses ==
    /\ [][(call' = call /\ now' = now) =>
            state' = "closed" /\ failures' = 0 /\ successes' = 0]_vars
    /\ [][\A c \in Callers :
            (state = "closed" /\ Calls(c)) => call'[c] = Running]_vars
    /\ [](state = "closed" => failures = consec)
    /\ [][(state = "closed" /\ state' = "open") =>
            (failures' = consec' /\ consec' = cbOptions.failureThreshold)]_vars

\* C14 witness: reset() zeroed the success counter of a breaker that had seen
\* one of the two probe successes it needed, and a failure recorded after the
\* reset left the breaker Closed (threshold 2).
C14_Witness ==
    /\ cbOptions.failureThreshold = 2
    /\ cbOptions.halfOpenRequests = 2
    /\ state = "closed"
    /\ probeOk = 1
    /\ successes = 0
    /\ failures = 1
    /\ \E c \in Callers : call[c] = Threw

\* C19: a breaker constructed with default options opens on the 5th
\* consecutive failure and not on an earlier one.
C19_DefaultOpensAtFive ==
    /\ [](state = "closed" => consec < ReadmeFailureThreshold)
    /\ [][(state = "closed" /\ state' = "open") =>
            consec' = ReadmeFailureThreshold]_vars

\* the nominal wait after failed attempt k, as C15 states it:
\* min(baseDelay * multiplier^(k-1), maxDelay)
C15_Nominal(k) ==
    LET grown == (opts.baseDelay * Pow(opts.multiplier[1], k - 1))
                    \div Pow(opts.multiplier[2], k - 1)
    IN  IF grown < opts.maxDelay THEN grown ELSE opts.maxDelay

\* C15: the wait after failed attempt k (1 <= k < maxAttempts) is
\* min(baseDelay * multiplier^(k-1), maxDelay) without jitter and within 25%
\* of it with jitter; the quick profile waits exactly 50 ms once, the standard
\* profile nominally 200 ms and then 400 ms.
C15_BackoffWait ==
    /\ Len(waitMs) = Len(waits)
    /\ \A i \in 1..Len(waitMs) :
          LET k == waits[i]
          IN  /\ 1 <= k /\ k < opts.maxAttempts
              /\ IF opts.jitter
                 THEN /\ 4 * waitMs[i] >= 3 * C15_Nominal(k)
                      /\ 4 * waitMs[i] <= 5 * C15_Nominal(k)
                 ELSE waitMs[i] = C15_Nominal(k)
    /\ (opts.baseDelay = RETRY_PROFILES.quick.baseDelay
          /\ opts.maxAttempts = RETRY_PROFILES.quick.maxAttempts
          /\ rpc = "done" /\ AllFailedAccepted)
        => waitMs = <<Ms(50)>>
    /\ (opts.baseDelay = RETRY_PROFILES.standard.baseDelay
          /\ opts.maxDelay = RETRY_PROFILES.standard.maxDelay)
        => \A i \in 1..Len(waitMs) :
              /\ waits[i] = 1 => C15_Nominal(1) = Ms(200)
              /\ waits[i] = 2 => C15_Nominal(2) = Ms(400)

\* the positions of the onRetry calls in the event log
C16_OnRetryAt == {p \in 1..Len(events) : events[p] = "onRetry"}

\* C16: onRetry is called once per failed attempt that is retried, in
\* increasing order, with that attempt's 1-based number and error, after the
\* failure and before the wait and the next invocation of fn; never for the
\* final failed attempt nor for an error the predicate rejects.
C16_OnRetryPerRetriedFailure ==
    /\ Len(onRetryLog) = (IF opts.hasOnRetry THEN Len(waits) ELSE 0)
    /\ Cardinality(C16_OnRetryAt) = Len(onRetryLog)
    /\ \A j \in 1..Len(onRetryLog) :
          /\ onRetryLog[j].attempt = j
          /\ j < opts.maxAttempts
          /\ ~outcomes[j].ok
          /\ Accepted(outcomes[j])
          /\ onRetryLog[j].error.msg = outcomes[j].thrown.msg
    /\ \A p \in C16_OnRetryAt :
          /\ p > 1 /\ events[p - 1] = "rejected"
          /\ p < Len(events) /\ events[p + 1] = "delay"
          /\ p + 2 <= Len(events) => events[p + 2] = "fn"
    /\ (rpc = "done" /\ settled.kind = "rejected" /\ opts.hasOnRetry
          /\ Len(outcomes) >= 1)
        => Len(onRetryLog) = Len(outcomes) - 1

\* C16 witness: onRetry was called for attempts 1 and 2, and the run then
\* ended on a third failure without a third call.
C16_Witness ==
    /\ opts.hasOnRetry
    /\ Len(onRetryLog) = 2
    /\ rpc = "done"
    /\ Len(outcomes) = 3
    /\ ~outcomes[3].ok

\* C17: a withTimeout call settles exactly once with whichever of fn and the
\* timer happens first: fn's result or error when fn settles first, an error
\* carrying errorMessage when the timer fires first; nothing that happens
\* later (fn settling, the timer firing) changes a settled outcome.
C17_FirstSettlementWins ==
    /\ [](\A k \in DOMAIN race :
            /\ race[k] = Pending <=> (op[k] = Pending /\ timer[k] = "armed")
            /\ first[k] = "fn" =>
                  (op[k].kind \in {"fulfilled", "rejected"} /\ race[k] = op[k])
            /\ first[k] = "timer" =>
                  race[k] = Rejected(TimeoutError(errorMessage[k]))
            /\ (op[k].kind \in {"fulfilled", "rejected"} /\ timer[k] = "armed")
                  => first[k] = "fn"
            /\ (op[k] = Pending /\ timer[k] = "fired") => first[k] = "timer")
    /\ [][\A k \in DOMAIN race :
            race[k].kind \in {"fulfilled", "rejected"} => race'[k] = race[k]]_vars

\* C17 witness: the timer of a call with a custom message fired first, the
\* function fulfilled afterwards, and the call stays rejected with the
\* timeout error.
C17_Witness ==
    \E k \in DOMAIN race :
        /\ first[k] = "timer"
        /\ op[k].kind = "fulfilled"
        /\ errorMessage[k] # DefaultErrorMessage
        /\ race[k] = Rejected(TimeoutError(errorMessage[k]))

\* C18: under retryWithTimeout at most one invocation of the operation is in
\* flight at any time.
C18_NoOverlap ==
    Cardinality({k \in DOMAIN op : op[k] = Pending}) <= 1

\* the candidate starts with the needle without being equal to it
C20_ProperPrefix ==
    /\ haystack # needle
    /\ Len(needle) <= Len(haystack)
    /\ \A i \in 1..Len(needle) : haystack[i] = needle[i]

\* C20: fuzzyScore returns 100 exactly when the candidate equals the needle
\* (also when both are empty) and 80 when the candidate starts with the
\* needle without being equal to it, whether or not the needle's words all
\* occur in the candidate.
C20_ExactAndPrefix ==
    fpc = "returned" =>
        /\ fscore = <<100, 1>> <=> haystack = needle
        /\ C20_ProperPrefix => fscore = <<80, 1>>

\* C20 witness: the two-word needle "a b" is a proper prefix of the scored
\* candidate, which got 80.
C20_Witness ==
    /\ fpc = "returned"
    /\ needle = <<"a", " ", "b">>
    /\ Len(haystack) = 4
    /\ C20_ProperPrefix
    /\ fscore = <<80, 1>>

\* the maximal runs of non-whitespace characters of the needle, as pairs of
\* positions
C21_Tokens ==
    {t \in (1..Len(needle)) \X (1..Len(needle)) :
        /\ t[1] <= t[2]
        /\ \A i \in t[1]..t[2] : needle[i] \notin Whitespace
        /\ t[1] = 1 \/ needle[t[1] - 1] \in Whitespace
        /\ t[2] = Len(needle) \/ needle[t[2] + 1] \in Whitespace}

\* the characters at positions a..b of the needle occur contiguously in the
\* candidate
C21_Occurs(a, b) ==
    \E d \in 0..(Len(haystack) - (b - a + 1)) :
        \A i \in a..b : haystack[d + i - a + 1] = needle[i]

\* the candidate starts with the needle (or equals it)
C21_Prefix ==
    /\ Len(needle) <= Len(haystack)
    /\ \A i \in 1..Len(needle) : haystack[i] = needle[i]

\* C21: when the candidate does not start with the needle and every
\* whitespace-delimited token of the needle is a substring of the candidate,
\* fuzzyScore returns 60.
C21_AllWords ==
    (fpc = "returned" /\ ~C21_Prefix
        /\ \A t \in C21_Tokens : C21_Occurs(t[1], t[2]))
    => fscore = <<60, 1>>

\* C21 witness: the one-word needle "b" occurs in the scored candidate "ab",
\* not as a prefix, and got 60.
C21_Witness ==
    /\ fpc = "returned"
    /\ needle = <<"b">>
    /\ haystack = <<"a", "b">>
    /\ fscore = <<60, 1>>

\* C22: a candidate that contains the needle as one contiguous substring
\* without starting with it scores 40.
C22_ContainsScores40 ==
    (fpc = "returned" /\ Len(needle) >= 1 /\ ~C21_Prefix
        /\ C21_Occurs(1, Len(needle)))
    => fscore = <<40, 1>>

\* the number of positions of the needle whose character occurs in the
\* candidate
C23_Count ==
    Cardinality({i \in 1..Len(needle) :
                    \E j \in 1..Len(haystack) : haystack[j] = needle[i]})

\* no rule (exact, prefix, all-words, contains) matches
C23_NoRule ==
    /\ ~C21_Prefix
    /\ \E t \in C21_Tokens : ~C21_Occurs(t[1], t[2])

\* C23: when no rule matches, the score is 20 * (needle characters occurring
\* in the candidate) / len(needle), between 0 and 20 and 0 when none occurs;
\* every score given by a rule is greater than that.
C23_PartialScore ==
    fpc = "returned" =>
        /\ C23_NoRule =>
              /\ Len(needle) >= 1
              /\ fscore[1] * Len(needle) = 20 * C23_Count * fscore[2]
              /\ 0 <= fscore[1] /\ fscore[1] <= 20 * fscore[2]
              /\ C23_Count = 0 => fscore = <<0, 1>>
        /\ ~C23_NoRule => fscore[1] > 20 * fscore[2]

\* C23 witness: no rule matches the needle "aab" on the candidate "ba", all
\* three of its characters occur there, and the score is 20.
C23_Witness ==
    /\ fpc = "returned"
    /\ needle = <<"a", "a", "b">>
    /\ haystack = <<"b", "a">>
    /\ C23_NoRule
    /\ fscore = <<20, 1>>

\* the fuzzy score of the j-th result item (j from 1) against the desired
\* value, both lower-cased
C24_Score(j) == fuzzyScore(toLowerCase(value), toLowerCase(results[j]))

\* C24: resolution over a non-empty list clicks one item, inside the list,
\* whose score is the maximum over the list, and the earliest such item.
C24_ClicksFirstMaximum ==
    (tpc = "done" /\ Len(results) >= 1) =>
        /\ Len(clicks) = 1
        /\ clicks[1] \in 0..(Len(results) - 1)
        /\ \A j \in 1..Len(results) :
              ~Greater(C24_Score(j), C24_Score(clicks[1] + 1))
        /\ \A j \in 1..clicks[1] :
              Greater(C24_Score(clicks[1] + 1), C24_Score(j))

\* C24 witness: both items of the list score the maximum ("A" and "a" for
\* the value "a") and the first one was clicked.
C24_Witness ==
    /\ tpc = "done"
    /\ value = <<"a">>
    /\ results = << <<"A">>, <<"a">> >>
    /\ clicks = <<0>>

\* the result items equal to the desired value after lower-casing
C25_Equal == {j \in 1..Len(results) : toLowerCase(results[j]) = toLowerCase(value)}

\* C25: when exactly one result item equals the desired value after
\* lower-casing, that item is the one clicked, wherever it is in the list.
C25_UniqueExactSelected ==
    (tpc = "done" /\ Cardinality(C25_Equal) = 1) =>
        /\ Len(clicks) = 1
        /\ clicks[1] + 1 \in C25_Equal

\* C25 witness: the only item equal to the value "a" after lower-casing, "A",
\* is second in the list, behind an item that scored less, and was clicked.
C25_Witness ==
    /\ tpc = "done"
    /\ value = <<"a">>
    /\ results = << <<"b">>, <<"A">> >>
    /\ clicks = <<1>>

\* C26: on an empty result list resolution throws and clicks nothing.
C26_EmptyListThrows ==
    /\ Len(results) = 0 => (clicks = <<>> /\ tpc \in {"count", "threw"})
    /\ tpc = "threw" => (Len(results) = 0 /\ clicks = <<>>)

\* C26 witness: resolution threw on the empty list.
C26_Witness ==
    /\ tpc = "threw"
    /\ results = <<>>
    /\ clicks = <<>>

RECURSIVE C27_Strip(_, _)
\* the keys of ks from position k on, without each key that a Backspace
\* follows and without that Backspace
C27_Strip(ks, k) ==
    IF k > Len(ks) THEN <<>>
    ELSE IF k < Len(ks) /\ ks[k + 1].key = "Backspace" THEN C27_Strip(ks, k + 2)
    ELSE <<ks[k].key>> \o C27_Strip(ks, k + 1)

\* C27: the keys humanType has emitted when it returns, without each typo key
\* and the Backspace after it, are the characters of the text in order,
\* every space included.
C27_KeysReconstructText ==
    hpc = "done" => C27_Strip(pressed, 1) = content

\* C27 witness: the text "ax " (trailing space) was typed with a typo on its
\* first character.
C27_Witness ==
    /\ hpc = "done"
    /\ content = <<"a", "x", " ">>
    /\ Len(pressed) = 5
    /\ pressed[1].key \in {"s", "q", "w"}
    /\ pressed[2].key = "Backspace"

\* the positions of the typo keys among the emitted keys
C28_Typos == {p \in 1..Len(pressed) : pressed[p].kind = "typo"}

\* C28: a typo key is emitted only for a character that is not the last of
\* its word, at most once per character, and is followed at once by
\* Backspace and then by the intended character; Backspace follows nothing
\* but a typo key.
C28_TypoThenBackspaceThenChar ==
    /\ \A p \in C28_Typos :
          /\ pressed[p].i < Len(words[pressed[p].w + 1]) - 1
          /\ \A q \in C28_Typos :
                (pressed[q].w = pressed[p].w /\ pressed[q].i = pressed[p].i) => q = p
          /\ p < Len(pressed) => pressed[p + 1].key = "Backspace"
          /\ p + 1 < Len(pressed) =>
                /\ pressed[p + 2].kind = "char"
                /\ pressed[p + 2].w = pressed[p].w
                /\ pressed[p + 2].i = pressed[p].i
                /\ pressed[p + 2].key = words[pressed[p].w + 1][pressed[p].i + 1]
          /\ hpc = "done" => p + 2 <= Len(pressed)
    /\ \A p \in 1..Len(pressed) :
          pressed[p].key = "Backspace" => (p > 1 /\ p - 1 \in C28_Typos)

\* C28 witness: the first character of "aa" got a typo, the typing went on to
\* the end, and the last character got none.
C28_Witness ==
    /\ hpc = "done"
    /\ content = <<"a", "a">>
    /\ C28_Typos = {1}
    /\ Len(pressed) = 4

\* C29: the pause after each typed character is within
\* [minDelay, maxDelay], 45 to 140 ms.
C29_PauseWithinRange ==
    charPause # -1 =>
        /\ charPause >= Ms(45)
        /\ charPause <= Ms(140)

\* C30: for a text matching a paste pattern every getInputBehavior call
\* returns paste and every shouldPaste call returns true, whatever the length
\* of the text and the random draw.
C30_PatternsAlwaysPaste ==
    (ipc = "ready" /\ PASTE_PATTERNS(inputText)) =>
        /\ behavior \in {"none", "paste"}
        /\ pasteAnswer \in {"none", "true"}

\* C30 witness: a text of e-mail shape longer than 200 characters got paste
\* from getInputBehavior and true from shouldPaste.
C30_Witness ==
    /\ ipc = "ready"
    /\ patternEmail(inputText)
    /\ ~patternProtocol(inputText) /\ ~patternWww(inputText)
    /\ Len(inputText) > 200
    /\ behavior = "paste"
    /\ pasteAnswer = "true"

\* C31: for a text matching no paste pattern, a length below 50 always gives
\* type (shouldPaste false) and a length from 50 to 200 only type or paste;
\* paste-then-edit and type-some-paste-rest are returned only for a length
\* above 200.
C31_LengthClasses ==
    ipc = "ready" =>
        /\ (~PASTE_PATTERNS(inputText) /\ Len(inputText) < 50) =>
              (behavior \in {"none", "type"} /\ pasteAnswer \in {"none", "false"})
        /\ (~PASTE_PATTERNS(inputText) /\ Len(inputText) >= 50
                /\ Len(inputText) <= 200) =>
              behavior \in {"none", "type", "paste"}
        /\ behavior \in {"paste-then-edit", "type-some-paste-rest"} =>
              Len(inputText) > 200

\* C31 witness: a text of exactly 200 characters matching no pattern got
\* paste from getInputBehavior.
C31_Witness ==
    /\ ipc = "ready"
    /\ ~PASTE_PATTERNS(inputText)
    /\ Len(inputText) = 200
    /\ behavior = "paste"

\* C32: a pointer movement with N configured steps issues exactly N + 1 move
\* calls (16 for the default N = 15); the first point is exactly the start
\* point and the last exactly the target, whatever control points were drawn.
C32_MovesAndEndpoints ==
    mpc = "done" =>
        /\ Len(moves) = steps + 1
        /\ (steps = HumanConfig.mouse.moveSteps => Len(moves) = 16)
        /\ moves[1] = [x |-> Fx(currentPos.x), y |-> Fx(currentPos.y)]
        /\ moves[Len(moves)] = [x |-> Fx(targetPos.x), y |-> Fx(targetPos.y)]
        /\ eased(0) = 0
        /\ eased(Fx(1)) = Fx(1)

C32_Witness ==
    /\ mpc = "done"
    /\ steps = HumanConfig.mouse.moveSteps
    /\ Len(moves) = 16
    /\ currentPos # targetPos
    /\ bezierPoints[2] # bezierPoints[1]
    /\ bezierPoints[3] # bezierPoints[4]
    /\ \E k \in 2..15 : moves[k] \notin {moves[1], moves[16]}

\* C33: randomInt(min, max) with whole numbers min <= max returns a whole
\* number in [min, max], never max + 1; randomBetween(min, max) lies in
\* [min, max] and equals min when min = max.
C33_RandomIntInRange ==
    /\ rndInt # -1 => (rndInt >= rndMin /\ rndInt <= rndMax)
    /\ rndBetween # -1 =>
           /\ rndBetween >= Number(rndMin)
           /\ rndBetween <= Number(rndMax)
           /\ rndMin = rndMax => rndBetween = Number(rndMin)

\* C34: in every reachable state the consecutive-failure counter is at most
\* failureThreshold; a failed probe in HalfOpen resets it rather than letting
\* it grow across reopenings.
C34_CounterBounded ==
    failures <= cbOptions.failureThreshold

\* C35: retry around breaker.execute(fn), fn failing on every invocation, no
\* retry predicate, maxAttempts > failureThreshold and less time than
\* recoveryTimeout elapsing: fn is invoked exactly failureThreshold times,
\* every later attempt is refused with CircuitOpenError without invoking fn,
\* and retry finally throws a CircuitOpenError.
C35_BreakerCutsRetries ==
    (/\ rpc = "done"
     /\ opts.maxAttempts > cbOptions.failureThreshold
     /\ now < cbOptions.recoveryTimeout
     /\ \A i \in 1..Len(outcomes) : ~outcomes[i].ok)
    =>
        /\ Len(outcomes) = opts.maxAttempts
        /\ consec = cbOptions.failureThreshold
        /\ \A i \in 1..Len(outcomes) :
              IF i <= cbOptions.failureThreshold
              THEN outcomes[i].thrown \in BreakerThrown
              ELSE outcomes[i].thrown = OpenError
        /\ settled = Rejected(OpenError)

C35_Witness ==
    /\ rpc = "done"
    /\ opts.maxAttempts = 3
    /\ cbOptions.failureThreshold = 2
    /\ now < cbOptions.recoveryTimeout
    /\ now > 0
    /\ consec = 2
    /\ settled = Rejected(OpenError)

\* C36: in the type-some-paste-rest behaviour the number of leading words
\* typed before the whole text is pasted is between 2 and 4, also for a text
\* of fewer than three space-separated words.
C36_TypesTwoToFourWords ==
    (fillBehavior = "type-some-paste-rest" /\ fillpc \in {"typing", "done"}) =>
        (typeCount >= 2 /\ typeCount <= 4)

\* C37: when humanFill has completed, the content of the field is the text,
\* whichever behaviour was chosen, whatever typos were made and whatever the
\* field held before.
C37_FieldEqualsText ==
    fillpc = "done" => field = fillText

\* C38: with overlapping calls, only a call admitted while HalfOpen can close
\* the breaker: when a call admitted while Closed succeeds after the breaker
\* has opened and become HalfOpen, it is not counted as a probe success and
\* the breaker stays HalfOpen.
C38_OnlyProbesClose ==
    [][\A c \in Callers :
          (/\ call[c].pc = "running"
           /\ call'[c] = Returned
           /\ admitted[c] = "closed"
           /\ state = "half-open")
          => (successes' = successes /\ state' = "half-open")]_vars

\* C39: the error withTimeout raises with its default message is retryable
\* for RetryPredicates.onTimeout: with that predicate as retryOn, an attempt
\* of retryWithTimeout that timed out is followed by another attempt, up to
\* maxAttempts.
C39_TimeoutIsRetried ==
    \A i \in 1..Len(outcomes) :
        (/\ ~outcomes[i].ok
         /\ outcomes[i].thrown = TimeoutError(DefaultErrorMessage)
         /\ i < opts.maxAttempts)
        => (rpc # "done" \/ Len(outcomes) > i)

\* C40: when selectSkillChips has completed, every existing chip of a
\* requested (mapped) skill is selected and no chip that was selected before
\* has been deselected, also when two entries map to the same chip value.
C40_RequestedChipsSelected ==
    cpc = "done" =>
        /\ \A k \in 1..Len(mappedSkills) :
              mappedSkills[k] \in chips => mappedSkills[k] \in selected
        /\ wasSelected \subseteq selected

====
